---- MODULE Spec2Model ----
(***************************************************************************)
(* EcoPilot coaching back end: the trend helper of the coaching routes,    *)
(* the recommendation generator over the trip store and the three scorers  *)
(* of AICoachingService, the coaching routes, the Redis cache wrapper, the *)
(* Trip Aggregator of the design and the AuthProvider of the web client.   *)
(*                                                                         *)
(* JavaScript numbers are modelled as exact fractions <<n, d>> with        *)
(* d >= 0.  d = 0 encodes the non-finite results of a division:            *)
(* <<0, 0>> is NaN, <<n, 0>> with n > 0 is +Infinity and with n < 0 is     *)
(* -Infinity.  Rounding error of the binary floating point format is not   *)
(* modelled; the inputs of the model are small integers.                   *)
(*                                                                         *)
(* Dates are counted in whole seconds instead of milliseconds, so that a   *)
(* year fits the integers of the model checker; every date of the model    *)
(* is a whole number of seconds.                                           *)
(***************************************************************************)
EXTENDS Integers, Sequences, FiniteSets, TLC

VARIABLES
    values,      \* calculateTrend: the series handed to the helper
    trendOut,    \* calculateTrend: what the call produced
    trips,       \* the Trip collection
    now,         \* Date.now(), in seconds
    added,       \* number of trips stored since the start
    ticks,       \* number of idle periods since the start
    recOut,      \* generateRecommendations: the last call and what it produced
    models,      \* AICoachingService.models
    isInitialized,  \* AICoachingService.isInitialized
    calls,       \* the analyzeTrip calls in progress: position and locals
    insights,    \* the stored `insights` of every Trip document, by trip id
    response,    \* coaching routes: the last response sent
    request,     \* coaching routes: the last request served, and the state it met
    redisClient, \* config/redis.js: the module's client, null before connectRedis
    redisData,   \* the Redis server: the text stored under every key
    redisOut,    \* config/redis.js: the last call and what it produced
    summaries,   \* the trip store: the TripSummary persisted for every trip id
    aggOut,      \* Trip Aggregator: the last aggregation and what it produced
    authState,   \* AuthProvider: the state of useReducer(authReducer, initialState)
    localStorage,   \* the browser: localStorage's item 'token'
    authorization,  \* api.defaults.headers.common['Authorization']
    authTasks    \* AuthProvider: effects and requests under way

trendVars == <<values, trendOut>>

storeVars == <<trips, now, added, ticks>>

recVars == <<trips, now, added, ticks, recOut>>

serviceVars == <<models, isInitialized, calls>>

routeVars == <<insights, response, request>>

redisVars == <<redisClient, redisData, redisOut>>

aggVars == <<summaries, aggOut>>

authVars == <<authState, localStorage, authorization, authTasks>>

peripheryVars == <<redisVars, aggVars, authVars>>

vars == <<values, trendOut, trips, now, added, ticks, recOut,
          models, isInitialized, calls, insights, response, request,
          redisClient, redisData, redisOut, summaries, aggOut,
          authState, localStorage, authorization, authTasks>>

----------------------------------------------------------------------------
(* JavaScript arithmetic                                                   *)

Num(i) == <<i, 1>>

NaN == <<0, 0>>

IsNaN(a) == a[1] = 0 /\ a[2] = 0

IsFinite(a) == a[2] > 0

\* a / b; a zero divisor gives NaN or an infinity, never an exception
JSDiv(a, b) ==
    LET n == a[1] * b[2]
        d == a[2] * b[1]
    IN  IF d < 0 THEN <<0 - n, 0 - d>> ELSE <<n, d>>

JSSub(a, b) == <<a[1] * b[2] - b[1] * a[2], a[2] * b[2]>>

JSMul(a, b) == <<a[1] * b[1], a[2] * b[2]>>

\* a > b and a < b; every comparison with NaN is false
JSGt(a, b) == ~IsNaN(a) /\ ~IsNaN(b) /\ a[1] * b[2] > b[1] * a[2]

JSLt(a, b) == ~IsNaN(a) /\ ~IsNaN(b) /\ a[1] * b[2] < b[1] * a[2]

RECURSIVE SumSeq(_)
\* values.reduce((sum, val) => sum + val, 0)
SumSeq(s) == IF s = <<>> THEN 0 ELSE Head(s) + SumSeq(Tail(s))

----------------------------------------------------------------------------
(* Trend helper of the coaching routes                                     *)

MaxLen == 4

TrendValues == {-5, 0, 1, 5, 10, 19, 20, 21}

NotComputed == <<"not computed">>

NoTrend == [trend |-> "none", change |-> NotComputed]

\* values.slice(0, Math.floor(values.length / 2))
firstHalf(vs) == SubSeq(vs, 1, Len(vs) \div 2)

\* values.slice(Math.floor(values.length / 2))
secondHalf(vs) == SubSeq(vs, (Len(vs) \div 2) + 1, Len(vs))

firstAvg(vs) == JSDiv(Num(SumSeq(firstHalf(vs))), Num(Len(firstHalf(vs))))

secondAvg(vs) == JSDiv(Num(SumSeq(secondHalf(vs))), Num(Len(secondHalf(vs))))

\* ((secondAvg - firstAvg) / firstAvg) * 100
change(vs) ==
    JSMul(JSDiv(JSSub(secondAvg(vs), firstAvg(vs)), firstAvg(vs)), Num(100))

\* variant: the thresholds are inclusive
classify_inclusive(c) ==
    IF ~JSLt(c, Num(5)) /\ ~IsNaN(c) THEN "improving"
    ELSE IF ~JSGt(c, Num(-5)) /\ ~IsNaN(c) THEN "declining"
    ELSE "stable"

classify(c) ==
    IF JSGt(c, Num(5)) THEN "improving"
    ELSE IF JSLt(c, Num(-5)) THEN "declining"
    ELSE "stable"

\* variant: the length guard lets a single value through
calculateTrend_guard1(vs) ==
    IF Len(vs) < 1
    THEN [trend |-> "stable", change |-> NotComputed]
    ELSE [trend |-> classify(change(vs)), change |-> change(vs)]

\* the helper; change is recorded only when the helper gets to compute it
calculateTrend(vs) ==
    IF Len(vs) < 2
    THEN [trend |-> "stable", change |-> NotComputed]
    ELSE [trend |-> classify(change(vs)), change |-> change(vs)]

SeqsUpTo(S, n) == UNION {[1..k -> S] : k \in 0..n}

InitTrendVars ==
    /\ values \in SeqsUpTo(TrendValues, MaxLen)
    /\ trendOut = NoTrend

IdleTrend ==
    /\ values = <<>>
    /\ trendOut = NoTrend

CalculateTrend ==
    /\ trendOut = NoTrend
    /\ trendOut' = calculateTrend(values)
    /\ UNCHANGED values

----------------------------------------------------------------------------
(* The Trip collection and the recommendation generator                    *)

MaxNew == 1

MaxTicks == 1

SeedSize == 10

Users == {"u1", "u2"}

\* a trip lasts TripSecs; an idle period ends exactly one week after the
\* start of the trip stored last
TripSecs == 60 * 60

WeekSecs == 7 * 24 * 60 * 60

IdleSecs == WeekSecs - TripSecs

RecentLimit == 10

HarshAccelerationValues == {1, 5}

MaxSpeedValues == {80, 120}

IdleTimeValues == {60, 300}

Trip(u, t, ha, ms, it) ==
    [userId |-> u, startTime |-> t, maxSpeed |-> ms,
     drivingBehavior |-> [harshAccelerations |-> ha, idleTime |-> it]]

\* a user's SeedSize earlier trips, one after the other, calm and harsh
\* trips alternating
SeedTrips ==
    {Trip("u1", i * TripSecs, 1, 80, 60) : i \in {j \in 0..(SeedSize - 1) : j % 2 = 0}}
    \cup
    {Trip("u1", i * TripSecs, 5, 120, 300) : i \in {j \in 0..(SeedSize - 1) : j % 2 = 1}}

SeedStores == {{}, SeedTrips}

NoRec == [status |-> "none"]

InitRecVars ==
    /\ trips \in SeedStores
    /\ now = SeedSize * TripSecs
    /\ added = 0
    /\ ticks = 0
    /\ recOut = NoRec

IdleRecVars ==
    /\ trips = {}
    /\ now = 0
    /\ added = 0
    /\ ticks = 0
    /\ recOut = NoRec

\* a trip that started at `now` is stored when it ends
AddTrip(u, ha, ms, it) ==
    /\ added < MaxNew
    /\ trips' = trips \cup {Trip(u, now, ha, ms, it)}
    /\ now' = now + TripSecs
    /\ added' = added + 1
    /\ UNCHANGED <<ticks, recOut>>

\* time passes without a trip
Tick ==
    /\ ticks < MaxTicks
    /\ now' = now + IdleSecs
    /\ ticks' = ticks + 1
    /\ UNCHANGED <<trips, added, recOut>>

\* variant: the query does not filter on the user
find_anyUser(userId, since) ==
    {t \in trips : t.startTime >= since}

\* Trip.find({ userId, startTime: { $gte: new Date(Date.now() - 7 days) } })
find(userId, since) ==
    {t \in trips : t.userId = userId /\ t.startTime >= since}

RECURSIVE sortByStartTimeDesc(_)
\* .sort({ startTime: -1 })
sortByStartTimeDesc(ts) ==
    IF ts = {} THEN <<>>
    ELSE LET newest == CHOOSE t \in ts : \A s \in ts : s.startTime <= t.startTime
         IN  <<newest>> \o sortByStartTimeDesc(ts \ {newest})

\* .limit(n)
limit(s, n) == SubSeq(s, 1, IF Len(s) < n THEN Len(s) ELSE n)

findRecentTrips(userId) ==
    limit(sortByStartTimeDesc(find(userId, now - WeekSecs)), RecentLimit)

RECURSIVE sumHarshAccelerations(_)
sumHarshAccelerations(rt) ==
    IF rt = <<>> THEN 0
    ELSE Head(rt).drivingBehavior.harshAccelerations + sumHarshAccelerations(Tail(rt))

RECURSIVE sumMaxSpeed(_)
sumMaxSpeed(rt) ==
    IF rt = <<>> THEN 0 ELSE Head(rt).maxSpeed + sumMaxSpeed(Tail(rt))

RECURSIVE sumIdleTime(_)
sumIdleTime(rt) ==
    IF rt = <<>> THEN 0
    ELSE Head(rt).drivingBehavior.idleTime + sumIdleTime(Tail(rt))

avgHarshAccelerations(rt) == JSDiv(Num(sumHarshAccelerations(rt)), Num(Len(rt)))

avgMaxSpeed(rt) == JSDiv(Num(sumMaxSpeed(rt)), Num(Len(rt)))

avgIdleTime(rt) == JSDiv(Num(sumIdleTime(rt)), Num(Len(rt)))

accelerationRecommendation(avg) ==
    [type |-> "acceleration", priority |-> "high", title |-> "Smooth Acceleration",
     potentialSavings |-> [fuel |-> JSMul(avg, <<1, 10>>),
                           co2 |-> JSMul(avg, <<25, 100>>)]]

speedRecommendation ==
    [type |-> "speed", priority |-> "medium", title |-> "Speed Management",
     potentialSavings |-> [fuel |-> <<2, 10>>, co2 |-> <<5, 10>>]]

idlingRecommendation(avg) ==
    [type |-> "idling", priority |-> "medium", title |-> "Reduce Idle Time",
     potentialSavings |-> [fuel |-> JSMul(JSDiv(avg, Num(60)), <<1, 10>>),
                           co2 |-> JSMul(JSDiv(avg, Num(60)), <<25, 100>>)]]

\* variant: a mean equal to its threshold already counts
recommendationsFor_inclusive(rt) ==
    (IF ~JSLt(avgHarshAccelerations(rt), Num(3)) /\ ~IsNaN(avgHarshAccelerations(rt))
     THEN <<accelerationRecommendation(avgHarshAccelerations(rt))>> ELSE <<>>)
    \o (IF ~JSLt(avgMaxSpeed(rt), Num(100)) /\ ~IsNaN(avgMaxSpeed(rt))
        THEN <<speedRecommendation>> ELSE <<>>)
    \o (IF ~JSLt(avgIdleTime(rt), Num(180)) /\ ~IsNaN(avgIdleTime(rt))
        THEN <<idlingRecommendation(avgIdleTime(rt))>> ELSE <<>>)

\* variant: the idling rule is evaluated before the speed rule
recommendationsFor_idlingFirst(rt) ==
    (IF JSGt(avgHarshAccelerations(rt), Num(3))
     THEN <<accelerationRecommendation(avgHarshAccelerations(rt))>> ELSE <<>>)
    \o (IF JSGt(avgIdleTime(rt), Num(180))
        THEN <<idlingRecommendation(avgIdleTime(rt))>> ELSE <<>>)
    \o (IF JSGt(avgMaxSpeed(rt), Num(100)) THEN <<speedRecommendation>> ELSE <<>>)

\* the three pushes onto `recommendations`, in the order of the code
recommendationsFor(rt) ==
    (IF JSGt(avgHarshAccelerations(rt), Num(3))
     THEN <<accelerationRecommendation(avgHarshAccelerations(rt))>> ELSE <<>>)
    \o (IF JSGt(avgMaxSpeed(rt), Num(100)) THEN <<speedRecommendation>> ELSE <<>>)
    \o (IF JSGt(avgIdleTime(rt), Num(180))
        THEN <<idlingRecommendation(avgIdleTime(rt))>> ELSE <<>>)

averagesOf(rt) ==
    [harshAccelerations |-> avgHarshAccelerations(rt),
     maxSpeed |-> avgMaxSpeed(rt),
     idleTime |-> avgIdleTime(rt)]

threw(userId, queryOk, rt) ==
    [status |-> "threw", userId |-> userId, queryOk |-> queryOk,
     recentTrips |-> rt, averages |-> averagesOf(<<>>), recommendations |-> <<>>]

\* variant: the sums are reduced without an initial value, which raises a
\* TypeError on an empty array
generateRecommendations_noInitialValue(userId, queryOk) ==
    IF ~queryOk
    THEN threw(userId, FALSE, <<>>)
    ELSE LET recentTrips == findRecentTrips(userId)
         IN  IF recentTrips = <<>>
             THEN threw(userId, TRUE, <<>>)
             ELSE [status |-> "returned", userId |-> userId, queryOk |-> TRUE,
                   recentTrips |-> recentTrips,
                   averages |-> averagesOf(recentTrips),
                   recommendations |-> recommendationsFor(recentTrips)]

\* generateRecommendations(tripData) for tripData.userId = userId; the
\* query either answers or rejects, and a rejection is not caught
generateRecommendations(userId, queryOk) ==
    IF ~queryOk
    THEN threw(userId, FALSE, <<>>)
    ELSE LET recentTrips == findRecentTrips(userId)
         IN  [status |-> "returned", userId |-> userId, queryOk |-> TRUE,
              recentTrips |-> recentTrips,
              averages |-> averagesOf(recentTrips),
              recommendations |-> recommendationsFor(recentTrips)]

GenerateRecommendations(u, queryOk) ==
    /\ recOut' = generateRecommendations(u, queryOk)
    /\ UNCHANGED storeVars

----------------------------------------------------------------------------
(* AICoachingService: trip data and feature extraction                     *)

\* the value of a property that is not there
Undefined == [undefined |-> TRUE]

\* the object literal {}
EmptyObject == [empty |-> TRUE]

RECURSIVE GCD(_, _)
GCD(a, b) == IF b = 0 THEN a ELSE GCD(b, a % b)

Abs(i) == IF i < 0 THEN 0 - i ELSE i

\* the same number in lowest terms
Reduced(a) ==
    IF a[2] = 0
    THEN <<IF a[1] > 0 THEN 1 ELSE IF a[1] < 0 THEN -1 ELSE 0, 0>>
    ELSE LET g == GCD(Abs(a[1]), a[2]) IN <<a[1] \div g, a[2] \div g>>

JSAdd(a, b) == Reduced(<<a[1] * b[2] + b[1] * a[2], a[2] * b[2]>>)

\* Math.min(a, b) and Math.max(a, b) of two finite numbers
MathMin(a, b) == IF JSLt(b, a) THEN b ELSE a

MathMax(a, b) == IF JSGt(b, a) THEN b ELSE a

\* Math.round of a finite number: the nearest integer, halves upwards
MathRound(a) == (2 * a[1] + a[2]) \div (2 * a[2])

Flag(b) == IF b THEN Num(1) ELSE Num(0)

CalmTrip ==
    [userId |-> "u1", distance |-> 10, duration |-> 720,
     averageSpeed |-> 50, maxSpeed |-> 90,
     drivingBehavior |->
        [harshAccelerations |-> 0, harshBraking |-> 0, harshCornering |-> 0,
         speedingEvents |-> 0, idleTime |-> 0, rapidLaneChanges |-> 0],
     route |-> [type |-> "highway"],
     weather |-> [temperature |-> 0, conditions |-> "clear"],
     traffic |-> [level |-> "light"]]

HarshTrip ==
    [userId |-> "u1", distance |-> 25, duration |-> 3600,
     averageSpeed |-> 25, maxSpeed |-> 135,
     drivingBehavior |->
        [harshAccelerations |-> 6, harshBraking |-> 4, harshCornering |-> 2,
         speedingEvents |-> 3, idleTime |-> 360, rapidLaneChanges |-> 1],
     route |-> [type |-> "city"],
     weather |-> [temperature |-> 25, conditions |-> "rainy"],
     traffic |-> [level |-> "heavy"]]

\* a trip whose counts sit exactly on the limits of the factor rules
EdgeTrip ==
    [userId |-> "u1", distance |-> 20, duration |-> 2400,
     averageSpeed |-> 30, maxSpeed |-> 120,
     drivingBehavior |->
        [harshAccelerations |-> 5, harshBraking |-> 3, harshCornering |-> 1,
         speedingEvents |-> 1, idleTime |-> 300, rapidLaneChanges |-> 0],
     route |-> [type |-> "city"],
     weather |-> [temperature |-> 10, conditions |-> "clear"],
     traffic |-> [level |-> "moderate"]]

Without(t, field) == [t EXCEPT ![field] = Undefined]

\* the documents handed to analyzeTrip
TripDatas ==
    {CalmTrip, HarshTrip, EdgeTrip,
     Without(HarshTrip, "traffic"), Without(HarshTrip, "weather"),
     Without(CalmTrip, "route"), Without(CalmTrip, "drivingBehavior")}

\* reading a property of undefined raises a TypeError
TypeError == [ok |-> FALSE, error |-> "TypeError"]

Value(v) == [ok |-> TRUE, value |-> v]

extractEfficiencyFeatures(tripData) ==
    IF \/ tripData.drivingBehavior = Undefined
       \/ tripData.route = Undefined
       \/ tripData.weather = Undefined
    THEN TypeError
    ELSE Value(<< <<tripData.distance, 100>>,
                  <<tripData.duration, 3600>>,
                  <<tripData.averageSpeed, 100>>,
                  <<tripData.maxSpeed, 150>>,
                  <<tripData.drivingBehavior.harshAccelerations, 10>>,
                  <<tripData.drivingBehavior.harshBraking, 10>>,
                  <<tripData.drivingBehavior.idleTime, 600>>,
                  Flag(tripData.route.type = "city"),
                  Flag(tripData.route.type = "highway"),
                  <<tripData.weather.temperature, 50>> >>)

extractBehaviorFeatures(tripData) ==
    IF tripData.drivingBehavior = Undefined
    THEN TypeError
    ELSE Value(<< <<tripData.drivingBehavior.harshAccelerations, 10>>,
                  <<tripData.drivingBehavior.harshBraking, 10>>,
                  <<tripData.drivingBehavior.harshCornering, 10>>,
                  <<tripData.drivingBehavior.speedingEvents, 10>>,
                  <<tripData.drivingBehavior.idleTime, 600>>,
                  <<tripData.drivingBehavior.rapidLaneChanges, 10>>,
                  <<tripData.averageSpeed, 100>>,
                  <<tripData.maxSpeed, 150>> >>)

\* variant: the weather indicator is left out
extractRouteFeatures_fiveValues(tripData) ==
    IF \/ tripData.traffic = Undefined
       \/ tripData.route = Undefined
       \/ tripData.weather = Undefined
    THEN TypeError
    ELSE Value(<< <<tripData.distance, 100>>,
                  <<tripData.duration, 3600>>,
                  Flag(tripData.traffic.level = "heavy"),
                  Flag(tripData.traffic.level = "congested"),
                  Flag(tripData.route.type = "city") >>)

extractRouteFeatures(tripData) ==
    IF \/ tripData.traffic = Undefined
       \/ tripData.route = Undefined
       \/ tripData.weather = Undefined
    THEN TypeError
    ELSE Value(<< <<tripData.distance, 100>>,
                  <<tripData.duration, 3600>>,
                  Flag(tripData.traffic.level = "heavy"),
                  Flag(tripData.traffic.level = "congested"),
                  Flag(tripData.route.type = "city"),
                  Flag(tripData.weather.conditions = "rainy") >>)

\* variant: a count equal to its limit already counts
identifyEfficiencyFactors_inclusive(tripData) ==
    (IF tripData.drivingBehavior.harshAccelerations >= 5
     THEN <<"High harsh acceleration count">> ELSE <<>>)
    \o (IF tripData.drivingBehavior.harshBraking >= 3
        THEN <<"Frequent harsh braking">> ELSE <<>>)
    \o (IF tripData.maxSpeed >= 120 THEN <<"High speed driving">> ELSE <<>>)
    \o (IF tripData.drivingBehavior.idleTime >= 300
        THEN <<"Excessive idling">> ELSE <<>>)
    \o (IF tripData.route.type = "city" /\ tripData.averageSpeed <= 30
        THEN <<"Heavy city traffic">> ELSE <<>>)

identifyEfficiencyFactors(tripData) ==
    (IF tripData.drivingBehavior.harshAccelerations > 5
     THEN <<"High harsh acceleration count">> ELSE <<>>)
    \o (IF tripData.drivingBehavior.harshBraking > 3
        THEN <<"Frequent harsh braking">> ELSE <<>>)
    \o (IF tripData.maxSpeed > 120 THEN <<"High speed driving">> ELSE <<>>)
    \o (IF tripData.drivingBehavior.idleTime > 300
        THEN <<"Excessive idling">> ELSE <<>>)
    \o (IF tripData.route.type = "city" /\ tripData.averageSpeed < 30
        THEN <<"Heavy city traffic">> ELSE <<>>)

calculateEfficiencyImprovement(tripData) ==
    LET accelerations == JSMul(Num(tripData.drivingBehavior.harshAccelerations), <<15, 100>>)
        braking == JSMul(Num(tripData.drivingBehavior.harshBraking), <<12, 100>>)
        speed == IF tripData.maxSpeed > 100
                 THEN JSMul(Num(tripData.maxSpeed - 100), <<1, 100>>) ELSE Num(0)
        idling == JSMul(JSDiv(Num(tripData.drivingBehavior.idleTime), Num(60)), <<1, 10>>)
    IN  MathMin(JSAdd(JSAdd(JSAdd(accelerations, braking), speed), idling), Num(30))

getBehaviorDetails(tripData) ==
    [accelerationPattern |->
        IF tripData.drivingBehavior.harshAccelerations > 5 THEN "aggressive" ELSE "smooth",
     brakingPattern |->
        IF tripData.drivingBehavior.harshBraking > 3 THEN "harsh" ELSE "smooth",
     speedPattern |-> IF tripData.maxSpeed > 120 THEN "high_speed" ELSE "moderate",
     idlingPattern |->
        IF tripData.drivingBehavior.idleTime > 300 THEN "excessive" ELSE "minimal"]

suggestRouteOptimizations(tripData) ==
    (IF tripData.traffic.level = "heavy" \/ tripData.traffic.level = "congested"
     THEN <<"traffic_avoidance">> ELSE <<>>)
    \o (IF tripData.route.type = "city" /\ tripData.distance > 20
        THEN <<"route_optimization">> ELSE <<>>)

----------------------------------------------------------------------------
(* AICoachingService: the three networks                                   *)
(*                                                                         *)
(* A network is created with random weights and is never trained.  It is   *)
(* modelled by one hidden ReLU unit over the sum of its inputs followed by *)
(* the output layer of the code: a linear unit, a sigmoid unit or a        *)
(* 4-way softmax.  The biases start at zero.  The sigmoid is the           *)
(* piecewise-linear one, clipped to [0, 1]; the softmax is taken to the    *)
(* base 2 over whole logits, and a term more than ExpCap below the largest *)
(* one underflows to 0.                                                    *)

ExpCap == 8

EfficiencyWeights ==
    {[gain |-> 1, out |-> <<1, 10>>],
     [gain |-> 1, out |-> <<-1, 10>>],
     [gain |-> 1, out |-> <<1, 2>>],
     [gain |-> -1, out |-> <<1, 10>>]}

BehaviorWeights ==
    {[gain |-> 1, out |-> <<-1, 0, 1, 2>>],
     [gain |-> 1, out |-> <<1, 1, 0, 0>>],
     [gain |-> -1, out |-> <<1, 0, 0, 1>>]}

RouteWeights ==
    {[gain |-> 1, out |-> <<1, 1>>],
     [gain |-> 1, out |-> <<-1, 1>>],
     [gain |-> -1, out |-> <<1, 1>>]}

\* tf.sequential({ layers: [...] }) with freshly drawn weights w
NewModel(kind, w) == [kind |-> kind, weights |-> w, disposed |-> FALSE]

\* inputShape of the first layer
inputShape(kind) ==
    CASE kind = "efficiency" -> 10
      [] kind = "behavior" -> 8
      [] kind = "routeOptimization" -> 6

RECURSIVE sumFeatures(_)
sumFeatures(x) == IF x = <<>> THEN Num(0) ELSE JSAdd(Head(x), sumFeatures(Tail(x)))

relu(a) == IF a[1] > 0 THEN a ELSE Num(0)

hidden(w, x) == relu(JSMul(Num(w.gain), sumFeatures(x)))

linear(z) == z

sigmoid(z) == MathMax(Num(0), MathMin(Num(1), JSAdd(JSDiv(z, Num(4)), <<1, 2>>)))

RECURSIVE Pow2(_)
Pow2(n) == IF n = 0 THEN 1 ELSE 2 * Pow2(n - 1)

MaxOf(zs) == CHOOSE m \in {zs[k] : k \in DOMAIN zs} : \A k \in DOMAIN zs : zs[k] <= m

softmax(zs) ==
    LET m == MaxOf(zs)
        e == [k \in DOMAIN zs |->
                IF m - zs[k] > ExpCap THEN 0 ELSE Pow2(ExpCap - (m - zs[k]))]
        total == SumSeq(e)
    IN  [k \in DOMAIN zs |-> <<e[k], total>>]

Floor(a) == a[1] \div a[2]

\* the output tensor of model.predict for the input row x
forward(model, x) ==
    LET h == hidden(model.weights, x)
    IN  CASE model.kind = "efficiency" ->
                <<linear(JSMul(model.weights.out, h))>>
          [] model.kind = "routeOptimization" ->
                <<sigmoid(JSMul(model.weights.out, h))>>
          [] model.kind = "behavior" ->
                softmax([k \in 1..4 |-> Floor(JSMul(Num(model.weights.out[k]), h))])

\* this.models.<kind>.predict(tf.tensor2d([features])) and prediction.data()
predict(model, features) ==
    IF model = Undefined THEN TypeError
    ELSE IF model.disposed THEN [ok |-> FALSE, error |-> "disposed"]
    ELSE IF Len(features) # inputShape(model.kind) THEN [ok |-> FALSE, error |-> "shape"]
    ELSE Value(forward(model, features))

----------------------------------------------------------------------------
(* AICoachingService: the three scorers                                    *)
(* `logged` tells that the scorer went through its catch block.            *)

\* an exception that leaves a scorer
Rethrown == [raised |-> TRUE]

efficiencyDefault ==
    [score |-> 0, factors |-> <<>>, improvement |-> Num(0), logged |-> TRUE]

behaviorDefault ==
    [type |-> "moderate", confidence |-> <<1, 2>>, details |-> EmptyObject, logged |-> TRUE]

routeDefault ==
    [efficiency |-> 50, optimization |-> <<>>, alternatives |-> <<>>, logged |-> TRUE]

analyzeEfficiency(tripData, model) ==
    LET features == extractEfficiencyFeatures(tripData)
    IN  IF ~features.ok THEN efficiencyDefault
        ELSE LET efficiencyScore == predict(model, features.value)
             IN  IF ~efficiencyScore.ok THEN efficiencyDefault
                 ELSE [score |-> MathRound(JSMul(efficiencyScore.value[1], Num(100))),
                       factors |-> identifyEfficiencyFactors(tripData),
                       improvement |-> calculateEfficiencyImprovement(tripData),
                       logged |-> FALSE]

behaviorTypes == <<"eco_friendly", "moderate", "aggressive", "very_aggressive">>

\* Math.max(...behaviorScores)
maxScore(scores) ==
    CHOOSE m \in {scores[k] : k \in DOMAIN scores} :
        \A k \in DOMAIN scores : ~JSGt(scores[k], m)

\* behaviorScores.indexOf(max): the first index that holds the maximum
indexOf(scores, m) ==
    CHOOSE k \in DOMAIN scores :
        /\ scores[k] = m
        /\ \A j \in DOMAIN scores : j < k => scores[j] # m

analyzeBehavior(tripData, model) ==
    LET features == extractBehaviorFeatures(tripData)
    IN  IF ~features.ok THEN behaviorDefault
        ELSE LET behaviorScores == predict(model, features.value)
             IN  IF ~behaviorScores.ok THEN behaviorDefault
                 ELSE LET maxIndex == indexOf(behaviorScores.value,
                                              maxScore(behaviorScores.value))
                      IN  [type |-> behaviorTypes[maxIndex],
                           confidence |-> behaviorScores.value[maxIndex],
                           details |-> getBehaviorDetails(tripData),
                           logged |-> FALSE]

\* variant: no try/catch around the body, a failure leaves the scorer
analyzeRoute_noCatch(tripData, model) ==
    LET features == extractRouteFeatures(tripData)
    IN  IF ~features.ok THEN Rethrown
        ELSE LET routeScore == predict(model, features.value)
             IN  IF ~routeScore.ok THEN Rethrown
                 ELSE [efficiency |-> MathRound(JSMul(routeScore.value[1], Num(100))),
                       optimization |-> suggestRouteOptimizations(tripData),
                       alternatives |-> <<>>,
                       logged |-> FALSE]

analyzeRoute(tripData, model) ==
    LET features == extractRouteFeatures(tripData)
    IN  IF ~features.ok THEN routeDefault
        ELSE LET routeScore == predict(model, features.value)
             IN  IF ~routeScore.ok THEN routeDefault
                 ELSE [efficiency |-> MathRound(JSMul(routeScore.value[1], Num(100))),
                       optimization |-> suggestRouteOptimizations(tripData),
                       alternatives |-> <<>>,
                       logged |-> FALSE]

----------------------------------------------------------------------------
(* AICoachingService: initialize, analyzeTrip, cleanup                     *)
(*                                                                         *)
(* An analyzeTrip call advances from one await to the next; what it does   *)
(* between two awaits is one step.  Calls interleave at the awaits.        *)

Calls == {"c1"}

IdleCall ==
    [pc |-> "idle", tripData |-> Undefined, efficiency |-> Undefined,
     behavior |-> Undefined, route |-> Undefined,
     recommendations |-> Undefined, threwAt |-> "nowhere"]

\* the stores the service runs against
ServiceStores == {SeedTrips, {Trip("u1", 0, 5, 120, 300)}}

InitServiceVars ==
    /\ models = [efficiency |-> Undefined, behavior |-> Undefined,
                 routeOptimization |-> Undefined]
    /\ isInitialized = FALSE
    /\ calls = [c \in Calls |-> IdleCall]

IdleServiceVars ==
    /\ models = [efficiency |-> Undefined, behavior |-> Undefined,
                 routeOptimization |-> Undefined]
    /\ isInitialized = FALSE
    /\ calls = [c \in Calls |-> IdleCall]

\* the catch block of analyzeTrip or initialize: log and rethrow
Throw(c, where) ==
    calls' = [calls EXCEPT ![c].pc = "done", ![c].threwAt = where]

\* the first scorer, up to its return
RunEfficiency(c, tripData) ==
    LET result == analyzeEfficiency(tripData, models.efficiency)
    IN  IF result = Rethrown
        THEN calls' = [calls EXCEPT ![c].pc = "done", ![c].tripData = tripData,
                                    ![c].threwAt = "analyzeEfficiency"]
        ELSE calls' = [calls EXCEPT ![c].pc = "behavior", ![c].tripData = tripData,
                                    ![c].efficiency = result]

\* analyzeTrip(tripData) is called.  When the service is initialized the
\* call goes straight into analyzeEfficiency; otherwise it enters
\* initialize(), which runs loadEfficiencyModel up to the first await.
CallAnalyzeTrip(c, tripData, loadOk, w) ==
    /\ calls[c].pc = "idle"
    /\ IF isInitialized
       THEN /\ RunEfficiency(c, tripData)
            /\ UNCHANGED <<models, isInitialized>>
       ELSE IF loadOk
       THEN /\ models' = [models EXCEPT !.efficiency = NewModel("efficiency", w)]
            /\ calls' = [calls EXCEPT ![c].pc = "loadBehavior", ![c].tripData = tripData]
            /\ UNCHANGED isInitialized
       ELSE /\ calls' = [calls EXCEPT ![c].pc = "done", ![c].tripData = tripData,
                                      ![c].threwAt = "initialize"]
            /\ UNCHANGED <<models, isInitialized>>
    /\ UNCHANGED storeVars

LoadBehaviorModel(c, loadOk, w) ==
    /\ calls[c].pc = "loadBehavior"
    /\ IF loadOk
       THEN /\ models' = [models EXCEPT !.behavior = NewModel("behavior", w)]
            /\ calls' = [calls EXCEPT ![c].pc = "loadRoute"]
       ELSE /\ Throw(c, "initialize")
            /\ UNCHANGED models
    /\ UNCHANGED <<isInitialized, storeVars>>

LoadRouteOptimizationModel(c, loadOk, w) ==
    /\ calls[c].pc = "loadRoute"
    /\ IF loadOk
       THEN /\ models' = [models EXCEPT
                            !.routeOptimization = NewModel("routeOptimization", w)]
            /\ calls' = [calls EXCEPT ![c].pc = "loaded"]
       ELSE /\ Throw(c, "initialize")
            /\ UNCHANGED models
    /\ UNCHANGED <<isInitialized, storeVars>>

\* initialize() resumes after the third load and returns
FinishInitialize(c) ==
    /\ calls[c].pc = "loaded"
    /\ isInitialized' = TRUE
    /\ calls' = [calls EXCEPT ![c].pc = "efficiency"]
    /\ UNCHANGED <<models, storeVars>>

\* analyzeTrip resumes after initialize()
AnalyzeEfficiency(c) ==
    /\ calls[c].pc = "efficiency"
    /\ RunEfficiency(c, calls[c].tripData)
    /\ UNCHANGED <<models, isInitialized, storeVars>>

AnalyzeBehavior(c) ==
    /\ calls[c].pc = "behavior"
    /\ LET result == analyzeBehavior(calls[c].tripData, models.behavior)
       IN  IF result = Rethrown
           THEN Throw(c, "analyzeBehavior")
           ELSE calls' = [calls EXCEPT ![c].pc = "route", ![c].behavior = result]
    /\ UNCHANGED <<models, isInitialized, storeVars>>

AnalyzeRoute(c) ==
    /\ calls[c].pc = "route"
    /\ LET result == analyzeRoute(calls[c].tripData, models.routeOptimization)
       IN  IF result = Rethrown
           THEN Throw(c, "analyzeRoute")
           ELSE calls' = [calls EXCEPT ![c].pc = "recommend", ![c].route = result]
    /\ UNCHANGED <<models, isInitialized, storeVars>>

\* generateRecommendations(tripData), then analyzeTrip returns its insights
Recommend(c, queryOk) ==
    /\ calls[c].pc = "recommend"
    /\ LET result == generateRecommendations(calls[c].tripData.userId, queryOk)
       IN  IF result.status = "threw"
           THEN Throw(c, "generateRecommendations")
           ELSE calls' = [calls EXCEPT ![c].pc = "done",
                                       ![c].recommendations = result.recommendations]
    /\ UNCHANGED <<models, isInitialized, storeVars>>

\* the caller has taken the insights or the error
Return(c) ==
    /\ calls[c].pc = "done"
    /\ calls' = [calls EXCEPT ![c] = IdleCall]
    /\ UNCHANGED <<models, isInitialized, storeVars>>

\* cleanup(): every model that is there is disposed
Cleanup ==
    /\ \E k \in DOMAIN models : models[k] # Undefined /\ ~models[k].disposed
    /\ models' = [k \in DOMAIN models |->
                    IF models[k] = Undefined THEN Undefined
                    ELSE [models[k] EXCEPT !.disposed = TRUE]]
    /\ UNCHANGED <<isInitialized, calls, storeVars>>

----------------------------------------------------------------------------
(* Coaching routes: POST /analyze-trip                                     *)

DaySecs == 24 * 60 * 60

\* Date.now() when the routes start to serve
RouteNow == 400 * DaySecs

\* a Trip document; `id` stands for _id
TripDoc(id, u, t, data, eco, fe) ==
    [id |-> id, userId |-> u, startTime |-> t, ecoScore |-> eco,
     fuelEfficiency |-> fe, distance |-> data.distance, duration |-> data.duration,
     averageSpeed |-> data.averageSpeed, maxSpeed |-> data.maxSpeed,
     drivingBehavior |-> data.drivingBehavior, route |-> data.route,
     weather |-> data.weather, traffic |-> data.traffic]

RouteTrips ==
    {TripDoc(1, "u1", RouteNow - 1 * DaySecs, HarshTrip, 60, 8),
     TripDoc(2, "u1", RouteNow - 3 * DaySecs, HarshTrip, 70, 9),
     TripDoc(3, "u1", RouteNow - 20 * DaySecs, CalmTrip, 90, 12),
     TripDoc(4, "u2", RouteNow - 2 * DaySecs, CalmTrip, 80, 10),
     TripDoc(5, "u1", RouteNow - 200 * DaySecs, EdgeTrip, 50, 7)}

\* the tripId values of the requests: the stored ids, an id of no trip
\* and a string that is not an ObjectId (-1)
RequestTripIds == {-1, 1, 2, 4, 9}

isMongoId(tripId) == tripId >= 0

NoResponse == [status |-> 0]

NoRequest == [op |-> "none"]

IdleRouteVars ==
    /\ insights = <<>>
    /\ response = NoResponse
    /\ request = NoRequest

InitRouteVars ==
    /\ insights = [id \in {t.id : t \in RouteTrips} |-> <<>>]
    /\ response = NoResponse
    /\ request = NoRequest

\* rec.description
descriptionOf(type) ==
    CASE type = "acceleration" ->
            "Reduce harsh accelerations to improve fuel efficiency by up to 15%"
      [] type = "speed" ->
            "Maintaining optimal speeds can significantly improve fuel efficiency"
      [] type = "idling" ->
            "Turn off your engine when parked to save fuel and reduce emissions"

\* analysis.recommendations.map(rec => ({ ... timestamp: new Date() }))
toInsights(recommendations, date) ==
    [k \in DOMAIN recommendations |->
        [type |-> recommendations[k].type,
         message |-> descriptionOf(recommendations[k].type),
         impact |-> IF JSGt(recommendations[k].potentialSavings.fuel, Num(0))
                    THEN "positive" ELSE "negative",
         fuelSavings |-> recommendations[k].potentialSavings.fuel,
         co2Savings |-> recommendations[k].potentialSavings.co2,
         timestamp |-> date]]

findOne_anyUser(tripId, userId) == {t \in trips : t.id = tripId}

\* Trip.findOne({ _id: tripId, userId })
findOne(tripId, userId) == {t \in trips : t.id = tripId /\ t.userId = userId}

save_partial(tripId, newInsights, saveOk) ==
    [insights EXCEPT ![tripId] = newInsights]

\* trip.save(): the insights stored afterwards
save(tripId, newInsights, saveOk) ==
    IF saveOk THEN [insights EXCEPT ![tripId] = newInsights] ELSE insights

Respond(status, message) ==
    response' = [status |-> status, success |-> status = 200, message |-> message]

\* POST /analyze-trip for the authenticated user.  analyzeTrip runs
\* initialize() first when the service is not initialized (w are the
\* weights the three models are created with), then the three scorers and
\* generateRecommendations; the handler replaces trip.insights and saves.
PostAnalyzeTrip(userId, tripId, initOk, w, queryOk, saveOk) ==
    /\ UNCHANGED storeVars
    /\ UNCHANGED calls
    /\ request' = [op |-> "analyze-trip", userId |-> userId, tripId |-> tripId,
                   initOk |-> initOk, queryOk |-> queryOk, saveOk |-> saveOk,
                   models |-> models, isInitialized |-> isInitialized,
                   insights |-> insights]
    /\ IF ~isMongoId(tripId)
       THEN /\ Respond(400, "Validation failed")
            /\ UNCHANGED <<models, isInitialized, insights>>
       ELSE IF findOne(tripId, userId) = {}
       THEN /\ Respond(404, "Trip not found")
            /\ UNCHANGED <<models, isInitialized, insights>>
       ELSE IF ~isInitialized /\ ~initOk
       THEN /\ Respond(500, "Failed to analyze trip")
            /\ UNCHANGED <<models, isInitialized, insights>>
       ELSE LET trip == CHOOSE t \in findOne(tripId, userId) : TRUE
                loaded == IF isInitialized THEN models
                          ELSE [efficiency |-> NewModel("efficiency", w[1]),
                                behavior |-> NewModel("behavior", w[2]),
                                routeOptimization |-> NewModel("routeOptimization", w[3])]
                rec == generateRecommendations(trip.userId, queryOk)
                analysis == [efficiency |-> analyzeEfficiency(trip, loaded.efficiency),
                             behavior |-> analyzeBehavior(trip, loaded.behavior),
                             route |-> analyzeRoute(trip, loaded.routeOptimization),
                             recommendations |-> rec.recommendations]
                newInsights == toInsights(rec.recommendations, now)
            IN  /\ models' = loaded
                /\ isInitialized' = TRUE
                /\ IF rec.status = "threw"
                   THEN /\ Respond(500, "Failed to analyze trip")
                        /\ UNCHANGED insights
                   ELSE IF ~saveOk
                   THEN /\ insights' = save(tripId, newInsights, saveOk)
                        /\ Respond(500, "Failed to analyze trip")
                   ELSE /\ insights' = save(tripId, newInsights, saveOk)
                        /\ response' =
                              [status |-> 200, success |-> TRUE,
                               message |-> "Trip analysis completed successfully",
                               analysis |-> analysis,
                               trip |-> [id |-> trip.id, ecoScore |-> trip.ecoScore,
                                         insights |-> newInsights]]

----------------------------------------------------------------------------
(* Coaching routes: GET /tips                                              *)

\* a Vehicle document; ecoDrivingTips is what getEcoDrivingTips() returns
Vehicle(isPrimary, ecoDrivingTips) ==
    [isPrimary |-> isPrimary, ecoDrivingTips |-> ecoDrivingTips]

\* the User documents, with `vehicles` populated: no primary vehicle among
\* the vehicles, a primary vehicle, no vehicle, no `vehicles` property
UserDocs ==
    [u \in {"u1", "u2", "u3", "u4"} |->
        CASE u = "u1" -> [id |-> u, vehicles |-> <<Vehicle(FALSE, <<"Check the oil">>)>>]
          [] u = "u2" -> [id |-> u,
                          vehicles |-> <<Vehicle(FALSE, <<"Check the oil">>),
                                         Vehicle(TRUE, <<"Use eco mode">>)>>]
          [] u = "u3" -> [id |-> u, vehicles |-> <<>>]
          [] u = "u4" -> [id |-> u]]

RouteUsers == DOMAIN UserDocs

\* user.vehicles?.find(v => v.isPrimary): the vehicles found, first one first
primaryVehicles(user) ==
    IF "vehicles" \notin DOMAIN user THEN <<>>
    ELSE SelectSeq(user.vehicles, LAMBDA v : v.isPrimary)

\* primaryVehicle.getEcoDrivingTips()
getEcoDrivingTips(vehicle) == vehicle.ecoDrivingTips

\* the object literal `tips`
GenericTips ==
    [acceleration |->
        <<"Gradually press the accelerator pedal instead of flooring it",
          "Anticipate traffic flow to avoid sudden stops and starts",
          "Use cruise control on highways when traffic conditions allow",
          "Accelerate smoothly from stops and maintain steady speeds">>,
     braking |->
        <<"Brake gently and early to avoid harsh stops",
          "Look ahead and anticipate traffic to reduce sudden braking",
          "Use engine braking when going downhill",
          "Maintain safe following distance to avoid emergency braking">>,
     speed |->
        <<"Maintain steady speeds within posted limits",
          "Use cruise control on highways for consistent speed",
          "Avoid rapid speed changes and aggressive acceleration",
          "Drive at optimal speeds for your vehicle (usually 50-80 km/h)">>,
     idling |->
        <<"Turn off your engine when parked for more than 30 seconds",
          "Avoid warming up your engine for extended periods",
          "Use remote start sparingly and only when necessary",
          "Plan your routes to minimize waiting time">>,
     route |->
        <<"Plan your route to avoid heavy traffic and construction",
          "Use navigation apps to find the most efficient routes",
          "Combine multiple errands into one trip",
          "Consider alternative routes during peak traffic hours">>,
     general |->
        <<"Keep your vehicle well-maintained for optimal efficiency",
          "Remove unnecessary weight from your vehicle",
          "Use air conditioning efficiently",
          "Check tire pressure regularly for better fuel economy">>]

\* tips after `tips.vehicle_specific = vehicleTips`
WithVehicleTips(vehicleTips) ==
    [k \in DOMAIN GenericTips \cup {"vehicle_specific"} |->
        IF k = "vehicle_specific" THEN vehicleTips ELSE GenericTips[k]]

\* names that every object literal inherits from Object.prototype
ObjectPrototypeKeys ==
    {"constructor", "toString", "valueOf", "hasOwnProperty", "__proto__"}

\* req.query: with or without a category
TipQueries ==
    {[none |-> TRUE]}
    \cup {[category |-> s] :
            s \in {"", "acceleration", "general", "vehicle_specific", "parking",
                   "constructor", "toString"}}

hasCategory(query) == "category" \in DOMAIN query

\* category ? tips[category] || tips.general : tips
\* A property read goes through the prototype chain: the own properties
\* first, then the members of Object.prototype, which are truthy.
selectTips(tips, query) ==
    IF ~hasCategory(query) \/ query.category = ""
    THEN [kind |-> "object", value |-> tips]
    ELSE IF query.category \in DOMAIN tips
    THEN [kind |-> "array", value |-> tips[query.category]]
    ELSE IF query.category \in ObjectPrototypeKeys
    THEN [kind |-> "inherited", value |-> query.category]
    ELSE [kind |-> "array", value |-> tips.general]

\* GET /tips for the authenticated user
GetTips(userId, query, lookupOk) ==
    /\ UNCHANGED <<storeVars, serviceVars, insights>>
    /\ request' = [op |-> "tips", userId |-> userId, query |-> query]
    /\ IF ~lookupOk
       THEN Respond(500, "Failed to get tips")
       ELSE LET user == UserDocs[userId]
                primary == primaryVehicles(user)
                tips == IF primary # <<>>
                        THEN WithVehicleTips(getEcoDrivingTips(Head(primary)))
                        ELSE GenericTips
            IN  response' =
                    [status |-> 200, success |-> TRUE,
                     message |-> "Tips retrieved successfully",
                     data |-> [tips |-> selectTips(tips, query),
                               category |-> IF hasCategory(query) /\ query.category # ""
                                            THEN query.category ELSE "all",
                               personalized |-> primary # <<>>]]

----------------------------------------------------------------------------
(* Coaching routes: GET /insights                                          *)

\* req.query: with or without a period
PeriodQueries ==
    {[none |-> TRUE]}
    \cup {[period |-> s] : s \in {"", "week", "month", "quarter", "year", "decade"}}

\* req.query.period || 'month'
periodOf(query) ==
    IF "period" \in DOMAIN query /\ query.period # "" THEN query.period ELSE "month"

\* the switch over the period
startDate(period) ==
    CASE period = "week" -> now - 7 * DaySecs
      [] period = "month" -> now - 30 * DaySecs
      [] period = "quarter" -> now - 90 * DaySecs
      [] period = "year" -> now - 365 * DaySecs
      [] OTHER -> now - 30 * DaySecs

\* Trip.find({ userId, startTime: { $gte: startDate } }).sort({ startTime: -1 })
periodTrips(userId, period) == sortByStartTimeDesc(find(userId, startDate(period)))

\* The handlers are arrow functions of the module, so `this` is the object
\* the module started to export, and that object has no property at all:
\* calculateTrend is a function declaration of the module, not a property.
ModuleThisProperties == {}

\* this.calculateTrend(values)
thisCalculateTrend(vs) ==
    IF "calculateTrend" \in ModuleThisProperties
    THEN Value(calculateTrend(vs).trend)
    ELSE TypeError

\* trips.map(trip => trip.<field>)
mapField(ts, field) == [k \in DOMAIN ts |-> ts[k][field]]

\* GET /insights for the authenticated user
GetInsights(userId, query, lookupOk) ==
    /\ UNCHANGED <<storeVars, serviceVars, insights>>
    /\ request' = [op |-> "insights", userId |-> userId, query |-> query]
    /\ IF ~lookupOk
       THEN Respond(500, "Failed to get insights")
       ELSE LET period == periodOf(query)
                ts == periodTrips(userId, period)
                ecoScoreTrend == thisCalculateTrend(mapField(ts, "ecoScore"))
                fuelEfficiencyTrend == thisCalculateTrend(mapField(ts, "fuelEfficiency"))
                distanceTrend == thisCalculateTrend(mapField(ts, "distance"))
            IN  IF ts = <<>>
                THEN response' =
                        [status |-> 200, success |-> TRUE,
                         message |-> "No trips found for the selected period",
                         data |-> [insights |-> <<>>, tripCount |-> 0]]
                ELSE IF ~ecoScoreTrend.ok \/ ~fuelEfficiencyTrend.ok \/ ~distanceTrend.ok
                THEN Respond(500, "Failed to get insights")
                ELSE response' =
                        [status |-> 200, success |-> TRUE,
                         message |-> "Insights retrieved successfully",
                         data |-> [insights |->
                                      [trends |->
                                          [ecoScoreTrend |-> ecoScoreTrend.value,
                                           fuelEfficiencyTrend |-> fuelEfficiencyTrend.value,
                                           distanceTrend |-> distanceTrend.value]],
                                   period |-> period,
                                   tripCount |-> Len(ts)]]

----------------------------------------------------------------------------
(* Coaching routes: GET /recommendations                                   *)

\* req.query: without a limit, or with the text of one
LimitQueries ==
    {[none |-> TRUE], [limit |-> "1"], [limit |-> "2"], [limit |-> "0"],
     [limit |-> "abc"]}

\* parseInt(req.query.limit): NaN for undefined and for a text without digits
parseInt(query) ==
    IF "limit" \notin DOMAIN query THEN NaN
    ELSE CASE query.limit = "0" -> Num(0)
           [] query.limit = "1" -> Num(1)
           [] query.limit = "2" -> Num(2)
           [] OTHER -> NaN

DefaultLimit == 10

LoadedLimit == 20

\* parseInt(req.query.limit) || 10: NaN and 0 are falsy
limitOf(query) ==
    LET n == parseInt(query)
    IN  IF IsNaN(n) \/ n[1] = 0 THEN DefaultLimit ELSE n[1]

\* Trip.find({ userId }).sort({ startTime: -1 }).limit(20)
loadedTrips(userId) ==
    limit(sortByStartTimeDesc({t \in trips : t.userId = userId}), LoadedLimit)

RECURSIVE sumEcoScore(_)
sumEcoScore(ts) == IF ts = <<>> THEN 0 ELSE Head(ts).ecoScore + sumEcoScore(Tail(ts))

\* recentTrips.reduce((sum, trip) => sum + (trip.<field> || 0), 0) over
\* documents that may lack the field
RECURSIVE sumOrZero(_, _)
sumOrZero(ts, field) ==
    IF ts = <<>> THEN 0
    ELSE (IF field \in DOMAIN Head(ts) THEN Head(ts)[field] ELSE 0)
         + sumOrZero(Tail(ts), field)

\* GET /recommendations for the authenticated user: the handler loads the
\* user's newest trips, hands them to generateRecommendations (which reads
\* only tripData.userId and queries the trips of the last week itself) and
\* summarises the trips it loaded.
GetRecommendations(userId, query, lookupOk, queryOk) ==
    /\ UNCHANGED <<storeVars, serviceVars, insights>>
    /\ request' = [op |-> "recommendations", userId |-> userId, query |-> query]
    /\ IF ~lookupOk
       THEN Respond(500, "Failed to get recommendations")
       ELSE LET recentTrips == loadedTrips(userId)
                rec == generateRecommendations(userId, queryOk)
                totalTrips == Len(recentTrips)
            IN  IF recentTrips = <<>>
                THEN response' =
                        [status |-> 200, success |-> TRUE,
                         message |-> "No trips found for analysis",
                         data |-> [recommendations |-> <<>>,
                                   summary |-> [totalTrips |-> 0, averageEcoScore |-> 0,
                                                totalFuelSaved |-> 0, totalCo2Saved |-> 0]]]
                ELSE IF rec.status = "threw"
                THEN Respond(500, "Failed to get recommendations")
                ELSE response' =
                        [status |-> 200, success |-> TRUE,
                         message |-> "Recommendations retrieved successfully",
                         data |-> [recommendations |->
                                      limit(rec.recommendations, limitOf(query)),
                                   summary |->
                                      [totalTrips |-> totalTrips,
                                       averageEcoScore |->
                                          MathRound(<<sumEcoScore(recentTrips), totalTrips>>),
                                       totalFuelSaved |->
                                          sumOrZero(recentTrips, "fuelConsumed"),
                                       totalCo2Saved |->
                                          sumOrZero(recentTrips, "co2Emissions")]]]

----------------------------------------------------------------------------
(* The Redis cache wrapper (config/redis.js)                               *)

\* JavaScript values handed to the cache.  Every kind keeps its payload in
\* a field of its own.
JSNull == [t |-> "null"]

JSUndefined == [t |-> "undefined"]

JSNaN == [t |-> "nan"]

JSBigInt == [t |-> "bigint"]

JSNumber(n) == [t |-> "number", n |-> n]

JSBoolean(b) == [t |-> "boolean", b |-> b]

JSString(s) == [t |-> "string", s |-> s]

JSObject(o) == [t |-> "object", o |-> o]

JSFalse == JSBoolean(FALSE)

JSTrue == JSBoolean(TRUE)

CacheKeys == {"k1", "k2"}

\* the values the callers cache: falsy ones, one that JSON turns into
\* another value, one JSON has no text for, one JSON.stringify rejects
CacheValues ==
    {JSNull, JSNaN, JSNumber(0), JSFalse, JSString(""),
     JSObject([ecoScore |-> 85, note |-> JSUndefined]),
     JSUndefined, JSBigInt}

\* JSON.stringify: a text, undefined, or a TypeError
stringify(data) ==
    CASE data.t = "null" -> [kind |-> "string", text |-> "null"]
      [] data.t = "nan" -> [kind |-> "string", text |-> "null"]
      [] data.t = "number" ->
            [kind |-> "string", text |-> IF data.n = 0 THEN "0" ELSE "85"]
      [] data.t = "boolean" ->
            [kind |-> "string", text |-> IF data.b THEN "true" ELSE "false"]
      [] data.t = "string" -> [kind |-> "string", text |-> "\"\""]
      [] data.t = "object" -> [kind |-> "string", text |-> "{\"ecoScore\":85}"]
      [] data.t = "undefined" -> [kind |-> "undefined"]
      [] data.t = "bigint" -> [kind |-> "throws"]

\* JSON.parse of the texts JSON.stringify writes
parse(text) ==
    CASE text = "null" -> JSNull
      [] text = "0" -> JSNumber(0)
      [] text = "85" -> JSNumber(85)
      [] text = "true" -> JSTrue
      [] text = "false" -> JSFalse
      [] text = "\"\"" -> JSString("")
      [] text = "{\"ecoScore\":85}" -> JSObject([ecoScore |-> 85])

DefaultTtl == 3600

Null == [null |-> TRUE]

NoRedisCall == [op |-> "none", threw |-> FALSE]

InitRedisVars ==
    /\ redisClient = Null
    /\ redisData = [k \in CacheKeys |-> Undefined]
    /\ redisOut = NoRedisCall

IdleRedisVars == InitRedisVars

\* a command of the client settles only on an open connection
commandSettles(client, commandOk) == client.open /\ commandOk

\* redisClient.setEx: rejects an argument that is not a text
setEx(client, key, ttl, value, commandOk) ==
    IF value.kind = "string" /\ commandSettles(client, commandOk)
    THEN [threw |-> FALSE,
          data |-> [redisData EXCEPT ![key] = [text |-> value.text, ttl |-> ttl]]]
    ELSE [threw |-> TRUE, data |-> redisData]

\* redisClient.get: the text under the key, or null
get(client, key, commandOk) ==
    IF commandSettles(client, commandOk)
    THEN [threw |-> FALSE,
          value |-> IF redisData[key] = Undefined THEN Null
                    ELSE [text |-> redisData[key].text]]
    ELSE [threw |-> TRUE, value |-> Null]

\* redisClient.del
del(client, key, commandOk) ==
    IF commandSettles(client, commandOk)
    THEN [threw |-> FALSE, data |-> [redisData EXCEPT ![key] = Undefined]]
    ELSE [threw |-> TRUE, data |-> redisData]

connectRedis(createOk, connectOk) ==
    [threw |-> FALSE,
     client |-> IF createOk THEN [open |-> connectOk] ELSE redisClient]

cacheData(key, data, ttl, commandOk) ==
    IF redisClient = Null
    THEN [threw |-> FALSE, result |-> JSFalse, data |-> redisData]
    ELSE LET text == stringify(data)
             sent == IF text.kind = "throws"
                     THEN [threw |-> TRUE, data |-> redisData]
                     ELSE setEx(redisClient, key, ttl, text, commandOk)
         IN  IF sent.threw
             THEN [threw |-> FALSE, result |-> JSFalse, data |-> sent.data]
             ELSE [threw |-> FALSE, result |-> JSTrue, data |-> sent.data]

getCachedData_noCatch(key, commandOk) ==
    IF redisClient = Null
    THEN [threw |-> FALSE, result |-> JSNull]
    ELSE LET data == get(redisClient, key, commandOk)
         IN  IF data.threw
             THEN [threw |-> TRUE, result |-> JSUndefined]
             ELSE [threw |-> FALSE,
                   result |-> IF data.value # Null /\ data.value.text # ""
                              THEN parse(data.value.text) ELSE JSNull]

getCachedData(key, commandOk) ==
    IF redisClient = Null
    THEN [threw |-> FALSE, result |-> JSNull]
    ELSE LET data == get(redisClient, key, commandOk)
         IN  IF data.threw
             THEN [threw |-> FALSE, result |-> JSNull]
             ELSE [threw |-> FALSE,
                   result |-> IF data.value # Null /\ data.value.text # ""
                              THEN parse(data.value.text) ELSE JSNull]

deleteCachedData(key, commandOk) ==
    IF redisClient = Null
    THEN [threw |-> FALSE, result |-> JSFalse, data |-> redisData]
    ELSE LET sent == del(redisClient, key, commandOk)
         IN  IF sent.threw
             THEN [threw |-> FALSE, result |-> JSFalse, data |-> sent.data]
             ELSE [threw |-> FALSE, result |-> JSTrue, data |-> sent.data]

ConnectRedis(createOk, connectOk) ==
    LET r == connectRedis(createOk, connectOk)
    IN  /\ redisClient' = r.client
        /\ redisOut' = [op |-> "connectRedis", threw |-> r.threw,
                        createOk |-> createOk, connectOk |-> connectOk]
        /\ UNCHANGED redisData

CacheData(key, data, commandOk) ==
    LET r == cacheData(key, data, DefaultTtl, commandOk)
    IN  /\ redisData' = r.data
        /\ redisOut' = [op |-> "cacheData", threw |-> r.threw, result |-> r.result,
                        client |-> redisClient, commandOk |-> commandOk,
                        key |-> key, data |-> data, before |-> redisData[key]]
        /\ UNCHANGED redisClient

GetCachedData(key, commandOk) ==
    LET r == getCachedData(key, commandOk)
    IN  /\ redisOut' = [op |-> "getCachedData", threw |-> r.threw, result |-> r.result,
                        client |-> redisClient, commandOk |-> commandOk,
                        key |-> key, before |-> redisData[key]]
        /\ UNCHANGED <<redisClient, redisData>>

DeleteCachedData(key, commandOk) ==
    LET r == deleteCachedData(key, commandOk)
    IN  /\ redisData' = r.data
        /\ redisOut' = [op |-> "deleteCachedData", threw |-> r.threw, result |-> r.result,
                        client |-> redisClient, commandOk |-> commandOk,
                        key |-> key, before |-> redisData[key]]
        /\ UNCHANGED redisClient

\* the server drops the connection, or the client gets it back
ConnectionChanges ==
    /\ redisClient # Null
    /\ redisClient' = [open |-> ~redisClient.open]
    /\ UNCHANGED <<redisData, redisOut>>

\* the time to live of a key runs out
Expire(key) ==
    /\ redisData[key] # Undefined
    /\ redisData' = [redisData EXCEPT ![key] = Undefined]
    /\ UNCHANGED <<redisClient, redisOut>>

----------------------------------------------------------------------------
(* The Trip Aggregator, as the design describes it: the handler that ends  *)
(* a trip is called by the web client (tripAPI.endTrip) and is not among   *)
(* the sources.                                                            *)

MaxSamples == 2

SampleSpeeds == {0, 50}

TripTimes == {0, 60, 120}

TripIds == {1, 2}

\* a TelemetrySample, reduced to the fields the aggregation reads
Sample(timestamp, speed) == [timestamp |-> timestamp, speed |-> speed]

RECURSIVE SamplesUpTo(_)
SamplesUpTo(n) ==
    IF n = 0 THEN {<<>>}
    ELSE SamplesUpTo(n - 1) \cup
         {Append(s, Sample(Len(s), v)) : s \in {q \in SamplesUpTo(n - 1) : Len(q) = n - 1},
                                        v \in SampleSpeeds}

InvalidTripData == [ok |-> FALSE, error |-> "InvalidTripData"]

RECURSIVE maxSampleSpeed(_)
maxSampleSpeed(samples) ==
    IF Len(samples) = 1 THEN Head(samples).speed
    ELSE LET m == maxSampleSpeed(Tail(samples))
         IN  IF Head(samples).speed > m THEN Head(samples).speed ELSE m

\* seconds at standstill, one second per sample
idleSeconds(samples) == Cardinality({k \in DOMAIN samples : samples[k].speed = 0})

aggregate_negativeOnly(tripId, startTime, endTime, distance, samples) ==
    LET duration == endTime - startTime
    IN  IF duration < 0 \/ samples = <<>>
        THEN InvalidTripData
        ELSE [ok |-> TRUE,
              summary |-> [tripId |-> tripId, startTime |-> startTime,
                           endTime |-> endTime, distance |-> distance,
                           duration |-> duration,
                           averageSpeed |-> JSDiv(Num(distance), <<duration, 3600>>),
                           maxSpeed |-> maxSampleSpeed(samples),
                           idleTime |-> idleSeconds(samples)]]

aggregate(tripId, startTime, endTime, distance, samples) ==
    LET duration == endTime - startTime
    IN  IF duration <= 0 \/ samples = <<>>
        THEN InvalidTripData
        ELSE [ok |-> TRUE,
              summary |-> [tripId |-> tripId, startTime |-> startTime,
                           endTime |-> endTime, distance |-> distance,
                           duration |-> duration,
                           averageSpeed |-> JSDiv(Num(distance), <<duration, 3600>>),
                           maxSpeed |-> maxSampleSpeed(samples),
                           idleTime |-> idleSeconds(samples)]]

NoAggregation == [op |-> "none"]

InitAggVars ==
    /\ summaries = [id \in TripIds |-> Undefined]
    /\ aggOut = NoAggregation

IdleAggVars == InitAggVars

\* the caller: aggregates the trip that ends and persists what it gets
EndTrip(tripId, startTime, endTime, samples) ==
    LET r == aggregate(tripId, startTime, endTime, 10, samples)
    IN  /\ summaries[tripId] = Undefined
        /\ summaries' = IF r.ok THEN [summaries EXCEPT ![tripId] = r.summary]
                        ELSE summaries
        /\ aggOut' = [op |-> "endTrip", tripId |-> tripId, startTime |-> startTime,
                      endTime |-> endTime, samples |-> samples, result |-> r,
                      before |-> summaries]

----------------------------------------------------------------------------
(* The web client's AuthProvider (contexts/AuthContext)                    *)

Jwt(s) == [jwt |-> s]

\* what localStorage holds under 'token' when the page loads
StoredTokens == {Null, Jwt("t1")}

\* the token POST /auth/login answers with
LoginToken == Jwt("t2")

\* the token POST /auth/register answers with
RegisterToken == Jwt("t3")

\* response.data.data.user
ServerUser == [id |-> "u1", name |-> "Ann"]

\* the argument of updateUser
UserUpdates == {[name |-> "Bea"]}

\* how a request ends: a 2xx answer, a 401 answer, any other failure
Outcomes == {"ok", "401", "error"}

initialState(stored) ==
    [user |-> Null, token |-> stored, isLoading |-> TRUE, isAuthenticated |-> FALSE]

\* { ...a, ...b }
spread(a, b) ==
    IF a = Null THEN b
    ELSE [k \in DOMAIN a \cup DOMAIN b |-> IF k \in DOMAIN b THEN b[k] ELSE a[k]]

authReducer_logoutKeepsLoading(state, action) ==
    CASE action.type = "SET_LOADING" -> [state EXCEPT !.isLoading = action.payload]
      [] action.type = "LOGIN_SUCCESS" ->
            [state EXCEPT !.user = action.payload.user, !.token = action.payload.token,
                          !.isAuthenticated = TRUE, !.isLoading = FALSE]
      [] action.type = "LOGOUT" ->
            [state EXCEPT !.user = Null, !.token = Null, !.isAuthenticated = FALSE]
      [] action.type = "UPDATE_USER" ->
            [state EXCEPT !.user = spread(state.user, action.payload)]
      [] action.type = "SET_ERROR" -> [state EXCEPT !.isLoading = FALSE]
      [] OTHER -> state

authReducer(state, action) ==
    CASE action.type = "SET_LOADING" -> [state EXCEPT !.isLoading = action.payload]
      [] action.type = "LOGIN_SUCCESS" ->
            [state EXCEPT !.user = action.payload.user, !.token = action.payload.token,
                          !.isAuthenticated = TRUE, !.isLoading = FALSE]
      [] action.type = "LOGOUT" ->
            [state EXCEPT !.user = Null, !.token = Null, !.isAuthenticated = FALSE,
                          !.isLoading = FALSE]
      [] action.type = "UPDATE_USER" ->
            [state EXCEPT !.user = spread(state.user, action.payload)]
      [] action.type = "SET_ERROR" -> [state EXCEPT !.isLoading = FALSE]
      [] OTHER -> state

\* checkAuth: "start" before the effects of the first render have run,
\* "requesting" while GET /auth/me is under way (checkToken is the
\* state.token the effect closed over), then "done" with its outcome.
\* tokenEffect: the effect on [state.token] is due after a render that
\* changed the token.  navigating: window.location.href was assigned.
FreshTasks ==
    [checkAuth |-> "start", checkToken |-> Null, outcome |-> "none",
     login |-> "idle", register |-> "idle", tokenEffect |-> FALSE,
     navigating |-> FALSE]

InitAuthVars ==
    /\ localStorage \in StoredTokens
    /\ authState = initialState(localStorage)
    /\ authorization = Null
    /\ authTasks = FreshTasks

IdleAuthVars ==
    /\ localStorage = Null
    /\ authState = initialState(Null)
    /\ authorization = Null
    /\ authTasks = FreshTasks

\* the effect on [state.token]
runTokenEffect ==
    /\ authorization' = IF authState.token # Null
                        THEN [bearer |-> authState.token.jwt] ELSE Null
    /\ localStorage' = authState.token

\* dispatch(action): the reducer runs, and a changed token makes the
\* effect on [state.token] due
dispatch(action, tasks) ==
    LET next == authReducer(authState, action)
    IN  /\ authState' = next
        /\ authTasks' = [tasks EXCEPT !.tokenEffect = (next.token # authState.token)]

\* the response interceptor of the api instance on a 401 answer
intercept(outcome) ==
    /\ localStorage' = IF outcome = "401" THEN Null ELSE localStorage
    /\ UNCHANGED authorization

afterAnswer(tasks, outcome) ==
    [tasks EXCEPT !.navigating = @ \/ outcome = "401"]

\* the first render commits: both effects run, checkAuth up to its await
Mount ==
    /\ authTasks.checkAuth = "start"
    /\ runTokenEffect
    /\ IF authState.token # Null
       THEN /\ authTasks' = [authTasks EXCEPT !.checkAuth = "requesting",
                                              !.checkToken = authState.token]
            /\ UNCHANGED authState
       ELSE dispatch([type |-> "SET_LOADING", payload |-> FALSE],
                     [authTasks EXCEPT !.checkAuth = "done", !.outcome = "noToken"])

\* GET /auth/me completes and checkAuth resumes
AuthMeCompletes(outcome) ==
    /\ authTasks.checkAuth = "requesting"
    /\ ~authTasks.tokenEffect
    /\ ~authTasks.navigating
    /\ intercept(outcome)
    /\ IF outcome = "ok"
       THEN dispatch([type |-> "LOGIN_SUCCESS",
                      payload |-> [user |-> ServerUser, token |-> authTasks.checkToken]],
                     [afterAnswer(authTasks, outcome) EXCEPT
                        !.checkAuth = "done", !.outcome = "ok"])
       ELSE dispatch([type |-> "LOGOUT"],
                     [afterAnswer(authTasks, outcome) EXCEPT
                        !.checkAuth = "done", !.outcome = "failed"])

\* the effect on [state.token] runs after the render that changed the token
TokenEffect ==
    /\ authTasks.tokenEffect
    /\ runTokenEffect
    /\ authTasks' = [authTasks EXCEPT !.tokenEffect = FALSE]
    /\ UNCHANGED authState

\* login(email, password) up to its await
LoginStarts ==
    /\ authTasks.checkAuth # "start"
    /\ authTasks.login = "idle"
    /\ ~authTasks.tokenEffect
    /\ ~authTasks.navigating
    /\ dispatch([type |-> "SET_LOADING", payload |-> TRUE],
                [authTasks EXCEPT !.login = "requesting"])
    /\ UNCHANGED <<localStorage, authorization>>

\* POST /auth/login completes and login resumes
LoginCompletes(outcome) ==
    /\ authTasks.login = "requesting"
    /\ ~authTasks.tokenEffect
    /\ ~authTasks.navigating
    /\ intercept(outcome)
    /\ IF outcome = "ok"
       THEN dispatch([type |-> "LOGIN_SUCCESS",
                      payload |-> [user |-> ServerUser, token |-> LoginToken]],
                     [afterAnswer(authTasks, outcome) EXCEPT !.login = "idle"])
       ELSE dispatch([type |-> "SET_ERROR"],
                     [afterAnswer(authTasks, outcome) EXCEPT !.login = "idle"])

\* register(userData) up to its await
RegisterStarts ==
    /\ authTasks.checkAuth # "start"
    /\ authTasks.register = "idle"
    /\ ~authTasks.tokenEffect
    /\ ~authTasks.navigating
    /\ dispatch([type |-> "SET_LOADING", payload |-> TRUE],
                [authTasks EXCEPT !.register = "requesting"])
    /\ UNCHANGED <<localStorage, authorization>>

\* POST /auth/register completes and register resumes
RegisterCompletes(outcome) ==
    /\ authTasks.register = "requesting"
    /\ ~authTasks.tokenEffect
    /\ ~authTasks.navigating
    /\ intercept(outcome)
    /\ IF outcome = "ok"
       THEN dispatch([type |-> "LOGIN_SUCCESS",
                      payload |-> [user |-> ServerUser, token |-> RegisterToken]],
                     [afterAnswer(authTasks, outcome) EXCEPT !.register = "idle"])
       ELSE dispatch([type |-> "SET_ERROR"],
                     [afterAnswer(authTasks, outcome) EXCEPT !.register = "idle"])

Logout ==
    /\ authTasks.checkAuth # "start"
    /\ ~authTasks.tokenEffect
    /\ ~authTasks.navigating
    /\ dispatch([type |-> "LOGOUT"], authTasks)
    /\ UNCHANGED <<localStorage, authorization>>

UpdateUser(userData) ==
    /\ authTasks.checkAuth # "start"
    /\ ~authTasks.tokenEffect
    /\ ~authTasks.navigating
    /\ dispatch([type |-> "UPDATE_USER", payload |-> userData], authTasks)
    /\ UNCHANGED <<localStorage, authorization>>

\* the browser follows window.location.href = '/login': the page is loaded
\* anew, and what was under way is gone.  Once the location is assigned
\* only an effect that is due may still run before the page goes.
Navigate ==
    /\ authTasks.navigating
    /\ authState' = initialState(localStorage)
    /\ authorization' = Null
    /\ authTasks' = FreshTasks
    /\ UNCHANGED localStorage

IdlePeriphery == IdleRedisVars /\ IdleAggVars /\ IdleAuthVars

----------------------------------------------------------------------------
(* Specifications                                                          *)

InitTrend ==
    InitTrendVars /\ IdleRecVars /\ IdleServiceVars /\ IdleRouteVars /\ IdlePeriphery

NextTrend == CalculateTrend /\ UNCHANGED <<peripheryVars, recVars, serviceVars, routeVars>>

SpecTrend == InitTrend /\ [][NextTrend]_vars

InitRec ==
    IdleTrend /\ InitRecVars /\ IdleServiceVars /\ IdleRouteVars /\ IdlePeriphery

NextRec ==
    \/ \E u \in Users, ha \in HarshAccelerationValues,
          ms \in MaxSpeedValues, it \in IdleTimeValues :
            AddTrip(u, ha, ms, it) /\ UNCHANGED <<peripheryVars, trendVars, serviceVars, routeVars>>
    \/ Tick /\ UNCHANGED <<peripheryVars, trendVars, serviceVars, routeVars>>
    \/ \E u \in Users, queryOk \in BOOLEAN :
            GenerateRecommendations(u, queryOk) /\ UNCHANGED <<peripheryVars, trendVars, serviceVars, routeVars>>

SpecRec == InitRec /\ [][NextRec]_vars

InitService ==
    /\ IdleTrend
    /\ trips \in ServiceStores
    /\ now = SeedSize * TripSecs
    /\ added = 0
    /\ ticks = 0
    /\ recOut = NoRec
    /\ InitServiceVars
    /\ IdleRouteVars
    /\ IdlePeriphery

NextService ==
    \/ \E c \in Calls, tripData \in TripDatas, loadOk \in BOOLEAN, w \in EfficiencyWeights :
            CallAnalyzeTrip(c, tripData, loadOk, w) /\ UNCHANGED <<peripheryVars, trendVars, recOut, routeVars>>
    \/ \E c \in Calls, loadOk \in BOOLEAN, w \in BehaviorWeights :
            LoadBehaviorModel(c, loadOk, w) /\ UNCHANGED <<peripheryVars, trendVars, recOut, routeVars>>
    \/ \E c \in Calls, loadOk \in BOOLEAN, w \in RouteWeights :
            LoadRouteOptimizationModel(c, loadOk, w) /\ UNCHANGED <<peripheryVars, trendVars, recOut, routeVars>>
    \/ \E c \in Calls : FinishInitialize(c) /\ UNCHANGED <<peripheryVars, trendVars, recOut, routeVars>>
    \/ \E c \in Calls : AnalyzeEfficiency(c) /\ UNCHANGED <<peripheryVars, trendVars, recOut, routeVars>>
    \/ \E c \in Calls : AnalyzeBehavior(c) /\ UNCHANGED <<peripheryVars, trendVars, recOut, routeVars>>
    \/ \E c \in Calls : AnalyzeRoute(c) /\ UNCHANGED <<peripheryVars, trendVars, recOut, routeVars>>
    \/ \E c \in Calls, queryOk \in BOOLEAN :
            Recommend(c, queryOk) /\ UNCHANGED <<peripheryVars, trendVars, recOut, routeVars>>
    \/ \E c \in Calls : Return(c) /\ UNCHANGED <<peripheryVars, trendVars, recOut, routeVars>>
    \/ Cleanup /\ UNCHANGED <<peripheryVars, trendVars, recOut, routeVars>>

SpecService == InitService /\ [][NextService]_vars

\* Two analyzeTrip calls in flight on the one exported service object
PairCalls == {"c1", "c2"}

PairTripDatas == {CalmTrip, HarshTrip}

PairEfficiencyWeights == {[gain |-> 1, out |-> <<1, 10>>]}

PairBehaviorWeights ==
    {[gain |-> 1, out |-> <<-1, 0, 1, 2>>], [gain |-> 1, out |-> <<1, 1, 0, 0>>]}

PairRouteWeights == {[gain |-> 1, out |-> <<1, 1>>]}

InitPair ==
    /\ IdleTrend
    /\ trips = SeedTrips
    /\ now = SeedSize * TripSecs
    /\ added = 0
    /\ ticks = 0
    /\ recOut = NoRec
    /\ models = [efficiency |-> Undefined, behavior |-> Undefined,
                 routeOptimization |-> Undefined]
    /\ isInitialized = FALSE
    /\ calls = [c \in PairCalls |-> IdleCall]
    /\ IdleRouteVars
    /\ IdlePeriphery

NextPair ==
    \/ \E c \in PairCalls, tripData \in PairTripDatas, loadOk \in {TRUE},
          w \in PairEfficiencyWeights :
            CallAnalyzeTrip(c, tripData, loadOk, w) /\ UNCHANGED <<peripheryVars, trendVars, recOut, routeVars>>
    \/ \E c \in PairCalls, loadOk \in {TRUE}, w \in PairBehaviorWeights :
            LoadBehaviorModel(c, loadOk, w) /\ UNCHANGED <<peripheryVars, trendVars, recOut, routeVars>>
    \/ \E c \in PairCalls, loadOk \in BOOLEAN, w \in PairRouteWeights :
            LoadRouteOptimizationModel(c, loadOk, w) /\ UNCHANGED <<peripheryVars, trendVars, recOut, routeVars>>
    \/ \E c \in PairCalls : FinishInitialize(c) /\ UNCHANGED <<peripheryVars, trendVars, recOut, routeVars>>
    \/ \E c \in PairCalls : AnalyzeEfficiency(c) /\ UNCHANGED <<peripheryVars, trendVars, recOut, routeVars>>
    \/ \E c \in PairCalls : AnalyzeBehavior(c) /\ UNCHANGED <<peripheryVars, trendVars, recOut, routeVars>>
    \/ \E c \in PairCalls : AnalyzeRoute(c) /\ UNCHANGED <<peripheryVars, trendVars, recOut, routeVars>>
    \/ \E c \in PairCalls, queryOk \in BOOLEAN :
            Recommend(c, queryOk) /\ UNCHANGED <<peripheryVars, trendVars, recOut, routeVars>>
    \/ \E c \in PairCalls : Return(c) /\ UNCHANGED <<peripheryVars, trendVars, recOut, routeVars>>
    \/ Cleanup /\ UNCHANGED <<peripheryVars, trendVars, recOut, routeVars>>

SpecPair == InitPair /\ [][NextPair]_vars

\* The coaching routes over a store of trips, served one request at a time
InitRoutes ==
    /\ IdleTrend
    /\ trips = RouteTrips
    /\ now = RouteNow
    /\ added = 0
    /\ ticks = 0
    /\ recOut = NoRec
    /\ InitServiceVars
    /\ InitRouteVars
    /\ IdlePeriphery

NextRoutes ==
    \/ \E userId \in Users, tripId \in RequestTripIds, initOk \in BOOLEAN,
          w \in PairEfficiencyWeights \X PairBehaviorWeights \X PairRouteWeights,
          queryOk \in BOOLEAN, saveOk \in BOOLEAN :
            PostAnalyzeTrip(userId, tripId, initOk, w, queryOk, saveOk)
                /\ UNCHANGED <<peripheryVars, trendVars, recOut>>
    \/ \E userId \in RouteUsers, query \in TipQueries, lookupOk \in BOOLEAN :
            GetTips(userId, query, lookupOk) /\ UNCHANGED <<peripheryVars, trendVars, recOut>>
    \/ \E userId \in RouteUsers, query \in PeriodQueries, lookupOk \in BOOLEAN :
            GetInsights(userId, query, lookupOk) /\ UNCHANGED <<peripheryVars, trendVars, recOut>>
    \/ \E userId \in RouteUsers, query \in LimitQueries, lookupOk \in BOOLEAN,
          queryOk \in BOOLEAN :
            GetRecommendations(userId, query, lookupOk, queryOk)
                /\ UNCHANGED <<peripheryVars, trendVars, recOut>>
    \/ Tick /\ UNCHANGED <<peripheryVars, trendVars, recOut, serviceVars, routeVars>>

SpecRoutes == InitRoutes /\ [][NextRoutes]_vars

\* The cache wrapper against a Redis server that comes and goes
IdleBackend ==
    /\ IdleTrend
    /\ IdleRecVars
    /\ IdleServiceVars
    /\ IdleRouteVars

backendVars == <<trendVars, recVars, serviceVars, routeVars>>

InitRedis == IdleBackend /\ InitRedisVars /\ IdleAggVars /\ IdleAuthVars

NextRedis ==
    \/ \E createOk \in BOOLEAN, connectOk \in BOOLEAN :
            ConnectRedis(createOk, connectOk) /\ UNCHANGED <<backendVars, aggVars, authVars>>
    \/ \E key \in CacheKeys, data \in CacheValues, commandOk \in BOOLEAN :
            CacheData(key, data, commandOk) /\ UNCHANGED <<backendVars, aggVars, authVars>>
    \/ \E key \in CacheKeys, commandOk \in BOOLEAN :
            GetCachedData(key, commandOk) /\ UNCHANGED <<backendVars, aggVars, authVars>>
    \/ \E key \in CacheKeys, commandOk \in BOOLEAN :
            DeleteCachedData(key, commandOk) /\ UNCHANGED <<backendVars, aggVars, authVars>>
    \/ ConnectionChanges /\ UNCHANGED <<backendVars, aggVars, authVars>>
    \/ \E key \in CacheKeys : Expire(key) /\ UNCHANGED <<backendVars, aggVars, authVars>>

SpecRedis == InitRedis /\ [][NextRedis]_vars

\* Trips ending, each aggregated once
InitAggregate == IdleBackend /\ IdleRedisVars /\ InitAggVars /\ IdleAuthVars

NextAggregate ==
    \E tripId \in TripIds, startTime \in TripTimes, endTime \in TripTimes,
       samples \in SamplesUpTo(MaxSamples) :
        EndTrip(tripId, startTime, endTime, samples)
            /\ UNCHANGED <<backendVars, redisVars, authVars>>

SpecAggregate == InitAggregate /\ [][NextAggregate]_vars

\* The AuthProvider in a browser, from the load of the page
restVars == <<backendVars, redisVars, aggVars>>

InitAuth == IdleBackend /\ IdleRedisVars /\ IdleAggVars /\ InitAuthVars

MountStep == Mount /\ UNCHANGED restVars

AuthMeStep == \E outcome \in Outcomes : AuthMeCompletes(outcome) /\ UNCHANGED restVars

TokenEffectStep == TokenEffect /\ UNCHANGED restVars

NavigateStep == Navigate /\ UNCHANGED restVars

NextAuth ==
    \/ MountStep
    \/ AuthMeStep
    \/ TokenEffectStep
    \/ LoginStarts /\ UNCHANGED restVars
    \/ \E outcome \in Outcomes : LoginCompletes(outcome) /\ UNCHANGED restVars
    \/ RegisterStarts /\ UNCHANGED restVars
    \/ \E outcome \in Outcomes : RegisterCompletes(outcome) /\ UNCHANGED restVars
    \/ Logout /\ UNCHANGED restVars
    \/ \E userData \in UserUpdates : UpdateUser(userData) /\ UNCHANGED restVars
    \/ NavigateStep

SpecAuth == InitAuth /\ [][NextAuth]_vars

\* React runs the effects of a committed render, the browser follows an
\* assigned location, and the run is one in which GET /auth/me completes
FairSpecAuth ==
    /\ SpecAuth
    /\ WF_vars(MountStep)
    /\ SF_vars(AuthMeStep)
    /\ WF_vars(TokenEffectStep)
    /\ WF_vars(NavigateStep)

----------------------------------------------------------------------------
(* Properties of the trend helper, checked under SpecTrend                 *)

TrendDone == trendOut # NoTrend

\* sums and lengths of the two halves, taken directly from the series
HalfLen == Len(values) \div 2

RestLen == Len(values) - HalfLen

HalfSum == SumSeq(SubSeq(values, 1, HalfLen))

RestSum == SumSeq(SubSeq(values, HalfLen + 1, Len(values)))

\* 100 * (RestSum/RestLen - HalfSum/HalfLen) / (HalfSum/HalfLen) compared
\* with +5 and -5, cross-multiplied by HalfSum * RestLen > 0
ChangeAbove5 == (RestSum * HalfLen - HalfSum * RestLen) * 100 > 5 * HalfSum * RestLen

ChangeBelowMinus5 == (RestSum * HalfLen - HalfSum * RestLen) * 100 < (-5) * HalfSum * RestLen

ChangeIs5 == (RestSum * HalfLen - HalfSum * RestLen) * 100 = 5 * HalfSum * RestLen

\* C5: for a series of n >= 2 values whose first-half mean is positive, the
\* helper answers 'improving' exactly when the percent change of the
\* second-half mean over the first-half mean (split at floor(n/2)) is above
\* 5, 'declining' exactly when it is below -5, and 'stable' otherwise, a
\* change of exactly 5 or -5 included; [1,1,1,1] is stable, [1,1,10,10]
\* improving and [10,10,1,1] declining.
C5_TrendClassification ==
    (TrendDone /\ Len(values) >= 2 /\ HalfSum > 0) =>
        /\ (trendOut.trend = "improving") <=> ChangeAbove5
        /\ (trendOut.trend = "declining") <=> ChangeBelowMinus5
        /\ (trendOut.trend = "stable") <=> (~ChangeAbove5 /\ ~ChangeBelowMinus5)
        /\ (values = <<1, 1, 1, 1>>) => (trendOut.trend = "stable")
        /\ (values = <<1, 1, 10, 10>>) => (trendOut.trend = "improving")
        /\ (values = <<10, 10, 1, 1>>) => (trendOut.trend = "declining")

\* a series whose change is exactly 5 percent has been classified stable
C5_Witness ==
    /\ TrendDone
    /\ Len(values) >= 2
    /\ HalfSum > 0
    /\ ChangeIs5
    /\ trendOut.trend = "stable"

\* C6: a series of fewer than 2 values is answered 'stable' before any
\* mean or percent change is computed.
C6_ShortSeriesStable ==
    (TrendDone /\ Len(values) < 2) =>
        (trendOut.trend = "stable" /\ trendOut.change = NotComputed)

\* a single value has been answered
C6_Witness ==
    /\ TrendDone
    /\ Len(values) = 1
    /\ trendOut.trend = "stable"

\* C7: with a first-half mean of 0 the helper fails with UndefinedTrend or
\* answers 'stable', never 'improving' or 'declining'.
C7_ZeroBaselineStable ==
    (TrendDone /\ Len(values) >= 2 /\ HalfSum = 0) =>
        trendOut.trend \in {"stable", "UndefinedTrend"}

----------------------------------------------------------------------------
(* Properties of the recommendation generator, checked under SpecRec       *)

RecReturned == recOut.status = "returned"

RecWindow == recOut.recentTrips

Recs == recOut.recommendations

RECURSIVE SumTo(_, _)
SumTo(f, n) == IF n = 0 THEN 0 ELSE f[n] + SumTo(f, n - 1)

WinLen == Len(RecWindow)

WinHarshAccelerations ==
    SumTo([i \in 1..WinLen |-> RecWindow[i].drivingBehavior.harshAccelerations], WinLen)

WinMaxSpeed == SumTo([i \in 1..WinLen |-> RecWindow[i].maxSpeed], WinLen)

WinIdleTime ==
    SumTo([i \in 1..WinLen |-> RecWindow[i].drivingBehavior.idleTime], WinLen)

CountOfType(ty) == Cardinality({i \in 1..Len(Recs) : Recs[i].type = ty})

PriorityOfType(ty) ==
    CASE ty = "acceleration" -> "high"
      [] ty = "speed" -> "medium"
      [] ty = "idling" -> "medium"
      [] OTHER -> "none"

\* C1: for a non-empty window there is exactly one 'acceleration'
\* recommendation (priority high) iff the mean harshAccelerations is above 3,
\* exactly one 'speed' (medium) iff the mean maxSpeed is above 100, exactly
\* one 'idling' (medium) iff the mean idleTime is above 180, and nothing
\* else; a mean equal to its threshold emits nothing; means 5 / 80 / 60 give
\* the single recommendation 'acceleration' with priority 'high'.
C1_ThresholdRules ==
    (RecReturned /\ WinLen > 0) =>
        /\ CountOfType("acceleration") = (IF WinHarshAccelerations > 3 * WinLen THEN 1 ELSE 0)
        /\ CountOfType("speed") = (IF WinMaxSpeed > 100 * WinLen THEN 1 ELSE 0)
        /\ CountOfType("idling") = (IF WinIdleTime > 180 * WinLen THEN 1 ELSE 0)
        /\ \A i \in 1..Len(Recs) :
              /\ Recs[i].type \in {"acceleration", "speed", "idling"}
              /\ Recs[i].priority = PriorityOfType(Recs[i].type)
        /\ (/\ WinHarshAccelerations = 5 * WinLen
            /\ WinMaxSpeed = 80 * WinLen
            /\ WinIdleTime = 60 * WinLen)
           => (/\ Len(Recs) = 1
               /\ Recs[1].type = "acceleration"
               /\ Recs[1].priority = "high")

\* a window whose mean harshAccelerations is exactly 3, whose mean idleTime
\* is exactly 180 and whose mean maxSpeed is above 100 has produced the speed
\* recommendation alone
C1_Witness ==
    /\ RecReturned
    /\ WinLen > 1
    /\ WinHarshAccelerations = 3 * WinLen
    /\ WinMaxSpeed > 100 * WinLen
    /\ WinIdleTime = 180 * WinLen
    /\ Len(Recs) = 1
    /\ Recs[1].type = "speed"

\* C2: when the query answers with no trip, the generator returns the empty
\* list and raises nothing.
C2_EmptyWindowEmptyList ==
    (recOut.status # "none" /\ recOut.queryOk /\ recOut.recentTrips = <<>>) =>
        (recOut.status = "returned" /\ recOut.recommendations = <<>>)

\* the user has trips, none of them within the last 7 days, and the call
\* has returned
C2_Witness ==
    /\ RecReturned
    /\ recOut.recentTrips = <<>>
    /\ \E t \in trips : t.userId = recOut.userId
    /\ \E t \in trips : t.userId # recOut.userId /\ t.startTime >= now - WeekSecs

RankOfType(ty) ==
    CASE ty = "acceleration" -> 1
      [] ty = "speed" -> 2
      [] ty = "idling" -> 3
      [] OTHER -> 0

\* C3: the returned list is a subsequence of [acceleration, speed, idling]:
\* types appear in that order and none appears twice.
C3_FixedOrder ==
    RecReturned =>
        \A i, j \in 1..Len(Recs) :
            i < j => (/\ RankOfType(Recs[i].type) > 0
                      /\ RankOfType(Recs[i].type) < RankOfType(Recs[j].type))

\* a medium-priority recommendation follows the high-priority one and the
\* idling one comes last
C3_Witness ==
    /\ RecReturned
    /\ Len(Recs) = 3
    /\ Recs[2].type = "speed"
    /\ Recs[3].type = "idling"

Range(s) == {s[i] : i \in 1..Len(s)}

\* the requesting user's trips of the last 7 days that have fewer than
\* RecentLimit later trips of the same user
WindowSet(u) ==
    {t \in trips :
        /\ t.userId = u
        /\ now - t.startTime <= WeekSecs
        /\ Cardinality({s \in trips : s.userId = u /\ s.startTime > t.startTime})
              < RecentLimit}

RECURSIVE SumOfSet(_, _)
SumOfSet(S, f) ==
    IF S = {} THEN 0
    ELSE LET x == CHOOSE y \in S : TRUE IN f[x] + SumOfSet(S \ {x}, f)

\* the fraction a is the mean of f over the non-empty set W, or NaN for an
\* empty W
IsMeanOver(a, W, f) ==
    IF W = {} THEN IsNaN(a)
    ELSE a[2] > 0 /\ a[1] * Cardinality(W) = SumOfSet(W, f) * a[2]

\* C4: the three averages of a call range over exactly the requesting
\* user's trips of the last 7 days, cut to the 10 with the latest startTime;
\* no trip of another user, no older trip and no trip beyond the 10 newest
\* contributes.
C4_AveragesOverWindow ==
    [][\A u \in Users :
          (/\ recOut'.status = "returned"
           /\ recOut'.userId = u
           /\ GenerateRecommendations(u, TRUE)) =>
              LET W == WindowSet(u)
              IN  /\ Range(recOut'.recentTrips) = W
                  /\ Len(recOut'.recentTrips) = Cardinality(W)
                  /\ IsMeanOver(recOut'.averages.harshAccelerations, W,
                                [t \in W |-> t.drivingBehavior.harshAccelerations])
                  /\ IsMeanOver(recOut'.averages.maxSpeed, W,
                                [t \in W |-> t.maxSpeed])
                  /\ IsMeanOver(recOut'.averages.idleTime, W,
                                [t \in W |-> t.drivingBehavior.idleTime])]_vars

\* a call has averaged the 10 newest trips of a user who has an eleventh
\* trip within the last 7 days, and leaving that trip out has changed the
\* mean harshAccelerations
C4_Witness ==
    /\ RecReturned
    /\ Len(recOut.recentTrips) = RecentLimit
    /\ \E t \in trips :
          /\ t.userId = recOut.userId
          /\ t.startTime >= now - WeekSecs
          /\ t \notin Range(recOut.recentTrips)
          /\ t.drivingBehavior.harshAccelerations * RecentLimit
                # WinHarshAccelerations

----------------------------------------------------------------------------
(* Properties of the scorers, checked under SpecService                    *)

EfficiencyInputs == {"drivingBehavior", "route", "weather"}

BehaviorInputs == {"drivingBehavior"}

RouteInputs == {"traffic", "route", "weather"}

MissingAny(tripData, fields) == \E f \in fields : tripData[f] = Undefined

Unusable(model) == model = Undefined \/ model.disposed

InRange(a, lo, hi) == ~JSLt(a, Num(lo)) /\ ~JSGt(a, Num(hi)) /\ ~IsNaN(a)

\* C8: the score of analyzeEfficiency and the efficiency of analyzeRoute lie
\* in [0, 100] and the confidence of analyzeBehavior lies in [0, 1], for
\* every feature vector of the declared length and every output of the
\* corresponding model.
C8_ScoresInRange ==
    \A c \in DOMAIN calls :
        /\ calls[c].efficiency # Undefined =>
              (calls[c].efficiency.score >= 0 /\ calls[c].efficiency.score <= 100)
        /\ calls[c].route # Undefined =>
              (calls[c].route.efficiency >= 0 /\ calls[c].route.efficiency <= 100)
        /\ calls[c].behavior # Undefined =>
              InRange(calls[c].behavior.confidence, 0, 1)

\* the part of C8 that the sigmoid and the softmax do guarantee
RouteAndConfidenceInRange ==
    \A c \in DOMAIN calls :
        /\ calls[c].route # Undefined =>
              (calls[c].route.efficiency >= 0 /\ calls[c].route.efficiency <= 100)
        /\ calls[c].behavior # Undefined =>
              InRange(calls[c].behavior.confidence, 0, 1)

\* C9: no scorer raises.  A scorer whose feature extraction or prediction
\* fails returns its neutral default, whether a scorer fails depends on its
\* own inputs and model only, and analyzeTrip raises only out of initialize
\* or generateRecommendations, so the results of the other scorers are
\* returned as they are.
C9_ScorersAbsorbFailures ==
    /\ [](\A c \in DOMAIN calls :
            /\ calls[c].threwAt \in {"nowhere", "initialize", "generateRecommendations"}
            /\ (calls[c].pc = "done" /\ calls[c].threwAt = "nowhere") =>
                  /\ calls[c].efficiency # Undefined
                  /\ calls[c].behavior # Undefined
                  /\ calls[c].route # Undefined
            /\ (calls[c].efficiency # Undefined /\ calls[c].efficiency.logged) =>
                  /\ calls[c].efficiency.score = 0
                  /\ calls[c].efficiency.factors = <<>>
                  /\ calls[c].efficiency.improvement = Num(0)
            /\ (calls[c].behavior # Undefined /\ calls[c].behavior.logged) =>
                  /\ calls[c].behavior.type = "moderate"
                  /\ calls[c].behavior.confidence = <<1, 2>>
                  /\ calls[c].behavior.details = EmptyObject
            /\ (calls[c].route # Undefined /\ calls[c].route.logged) =>
                  /\ calls[c].route.efficiency = 50
                  /\ calls[c].route.optimization = <<>>
                  /\ calls[c].route.alternatives = <<>>)
    /\ [][\A c \in DOMAIN calls :
            /\ (calls[c].efficiency = Undefined /\ calls'[c].efficiency # Undefined) =>
                  (calls'[c].efficiency.logged
                     <=> (\/ MissingAny(calls'[c].tripData, EfficiencyInputs)
                          \/ Unusable(models.efficiency)))
            /\ (calls[c].behavior = Undefined /\ calls'[c].behavior # Undefined) =>
                  (calls'[c].behavior.logged
                     <=> (\/ MissingAny(calls[c].tripData, BehaviorInputs)
                          \/ Unusable(models.behavior)))
            /\ (calls[c].route = Undefined /\ calls'[c].route # Undefined) =>
                  (calls'[c].route.logged
                     <=> (\/ MissingAny(calls[c].tripData, RouteInputs)
                          \/ Unusable(models.routeOptimization)))
            /\ (calls[c].threwAt = "nowhere" /\ calls'[c].threwAt # "nowhere") =>
                  calls[c].pc \in {"idle", "loadBehavior", "loadRoute", "recommend"}]_vars

\* analyzeTrip has returned insights in which the route scorer fell back
\* to its default while the other two scorers delivered their own results
C9_Witness ==
    \E c \in DOMAIN calls :
        /\ calls[c].pc = "done"
        /\ calls[c].threwAt = "nowhere"
        /\ calls[c].route.logged
        /\ ~calls[c].efficiency.logged
        /\ ~calls[c].behavior.logged
        /\ calls[c].behavior.details.accelerationPattern = "aggressive"

\* C10: a trip that lacks drivingBehavior, route, weather or traffic makes
\* feature extraction fail, and the failure reaches the caller: no scorer
\* returns a result, default or not, for such a trip.
C10_MissingInputSurfaced ==
    \A c \in DOMAIN calls :
        /\ calls[c].efficiency # Undefined =>
              ~MissingAny(calls[c].tripData, EfficiencyInputs)
        /\ calls[c].behavior # Undefined =>
              ~MissingAny(calls[c].tripData, BehaviorInputs)
        /\ calls[c].route # Undefined =>
              ~MissingAny(calls[c].tripData, RouteInputs)

\* the step of call c in which analyzeBehavior returns a prediction
BehaviorPredicted(c) ==
    /\ calls[c].behavior = Undefined
    /\ calls'[c].behavior # Undefined
    /\ ~calls'[c].behavior.logged

\* the four scores the behaviour model gives to the trip of call c
BehaviorScoresOf(c) ==
    forward(models.behavior, extractBehaviorFeatures(calls[c].tripData).value)

TypeRank(type) == CHOOSE k \in 1..4 : behaviorTypes[k] = type

\* C11: when several behaviour categories tie for the highest score,
\* analyzeBehavior returns the most aggressive of them: no category that
\* is more aggressive than the returned one has the returned confidence.
C11_TieToMostAggressive ==
    [][\A c \in DOMAIN calls :
          BehaviorPredicted(c) =>
              \A k \in 1..4 :
                  BehaviorScoresOf(c)[k] = calls'[c].behavior.confidence
                     => k <= TypeRank(calls'[c].behavior.type)]_vars

\* what the code does instead: no less aggressive category has the
\* returned confidence, and none has a higher score
TieToLeastAggressive ==
    [][\A c \in DOMAIN calls :
          BehaviorPredicted(c) =>
              \A k \in 1..4 :
                  /\ ~JSGt(BehaviorScoresOf(c)[k], calls'[c].behavior.confidence)
                  /\ BehaviorScoresOf(c)[k] = calls'[c].behavior.confidence
                        => k >= TypeRank(calls'[c].behavior.type)]_vars

----------------------------------------------------------------------------
(* Properties of concurrent calls, checked under SpecPair                  *)

\* calls a and b hold a behaviour result for the same feature vector
SameBehaviorFeatures(a, b) ==
    /\ calls[a].behavior # Undefined
    /\ calls[b].behavior # Undefined
    /\ extractBehaviorFeatures(calls[a].tripData).ok
    /\ extractBehaviorFeatures(calls[a].tripData)
          = extractBehaviorFeatures(calls[b].tripData)

\* C12: two analyzeBehavior calls with identical feature vectors return the
\* identical category and confidence, whatever ran between them.
C12_BehaviorDeterministic ==
    \A a \in DOMAIN calls, b \in DOMAIN calls :
        SameBehaviorFeatures(a, b) =>
            /\ calls[a].behavior.type = calls[b].behavior.type
            /\ calls[a].behavior.confidence = calls[b].behavior.confidence

\* the same as long as no model has been disposed: it fails as well,
\* because a second initialize() replaces the behaviour model
DeterministicBeforeCleanup ==
    (\A k \in DOMAIN models : models[k] = Undefined \/ ~models[k].disposed)
        => C12_BehaviorDeterministic

\* the documents of the calls in flight that have all nested objects
CompleteTripDatas ==
    {calls[c].tripData : c \in {d \in DOMAIN calls :
        /\ calls[d].tripData # Undefined
        /\ ~MissingAny(calls[d].tripData, EfficiencyInputs \cup RouteInputs)}}

\* C15: for a trip with all required fields the three extractors return
\* exactly 10, 8 and 6 values, the input widths of the efficiency, the
\* behaviour and the route model they are fed to.
C15_FeatureWidths ==
    \A tripData \in CompleteTripDatas :
        /\ extractEfficiencyFeatures(tripData).ok
        /\ Len(extractEfficiencyFeatures(tripData).value) = 10
        /\ extractBehaviorFeatures(tripData).ok
        /\ Len(extractBehaviorFeatures(tripData).value) = 8
        /\ extractRouteFeatures(tripData).ok
        /\ Len(extractRouteFeatures(tripData).value) = 6
        /\ \A k \in DOMAIN models :
              models[k] # Undefined =>
                  inputShape(models[k].kind)
                     = CASE k = "efficiency" -> Len(extractEfficiencyFeatures(tripData).value)
                         [] k = "behavior" -> Len(extractBehaviorFeatures(tripData).value)
                         [] k = "routeOptimization" -> Len(extractRouteFeatures(tripData).value)

\* a call for a complete trip whose three feature vectors have been
\* accepted by the three models
C15_Witness ==
    \E c \in DOMAIN calls :
        /\ calls[c].tripData = HarshTrip
        /\ calls[c].route # Undefined
        /\ ~calls[c].efficiency.logged
        /\ ~calls[c].behavior.logged
        /\ ~calls[c].route.logged

\* the five factors in the order of the code
FactorNames ==
    <<"High harsh acceleration count", "Frequent harsh braking",
      "High speed driving", "Excessive idling", "Heavy city traffic">>

\* whether the k-th factor rule applies to the trip
FactorApplies(k, tripData) ==
    CASE k = 1 -> tripData.drivingBehavior.harshAccelerations > 5
      [] k = 2 -> tripData.drivingBehavior.harshBraking > 3
      [] k = 3 -> tripData.maxSpeed > 120
      [] k = 4 -> tripData.drivingBehavior.idleTime > 300
      [] k = 5 -> tripData.route.type = "city" /\ tripData.averageSpeed < 30

FactorRank(name) == CHOOSE k \in 1..5 : FactorNames[k] = name

\* C18: when efficiency scoring succeeds, the factors hold each of the five
\* names iff its rule applies to the trip, in the order of the rules, each
\* at most once and nothing else.
C18_FactorsFollowRules ==
    \A c \in DOMAIN calls :
        (calls[c].efficiency # Undefined /\ ~calls[c].efficiency.logged) =>
            LET factors == calls[c].efficiency.factors
            IN  /\ \A i \in DOMAIN factors : \E k \in 1..5 : factors[i] = FactorNames[k]
                /\ \A k \in 1..5 :
                      (\E i \in DOMAIN factors : factors[i] = FactorNames[k])
                         <=> FactorApplies(k, calls[c].tripData)
                /\ \A i \in DOMAIN factors, j \in DOMAIN factors :
                      i < j => FactorRank(factors[i]) < FactorRank(factors[j])

\* efficiency scoring has succeeded on a trip to which all five rules apply
C18_Witness ==
    \E c \in DOMAIN calls :
        /\ calls[c].efficiency # Undefined
        /\ ~calls[c].efficiency.logged
        /\ calls[c].tripData = HarshTrip
        /\ Len(calls[c].efficiency.factors) = 5

\* the positions of analyzeTrip from which this.models is still read
WillReadModels(pc) ==
    pc \in {"loadBehavior", "loadRoute", "loaded", "efficiency", "behavior", "route"}

\* C14: analyzeTrip calls for different trips share no mutable state: no
\* step of one call writes this.models while another call is at a
\* position from which it still reads this.models.
C14_NoSharedMutableState ==
    [][\A c \in DOMAIN calls, d \in DOMAIN calls :
          (/\ c # d
           /\ calls'[c].pc # calls[c].pc
           /\ WillReadModels(calls[d].pc)
           /\ calls'[c].tripData # calls[d].tripData)
              => models' = models]_vars

----------------------------------------------------------------------------
(* Properties of the coaching routes, checked under SpecRoutes             *)

IsPrefix(a, b) == Len(a) <= Len(b) /\ \A k \in 1..Len(a) : a[k] = b[k]

\* C13: the insight list of a trip is append-only: the insights stored
\* before a POST /analyze-trip request are a prefix of the insights stored
\* after it.
C13_InsightsAppendOnly ==
    [][\A id \in DOMAIN insights : IsPrefix(insights[id], insights'[id])]_vars

\* the user has no primary vehicle
NoPrimaryVehicle(userId) ==
    \/ "vehicles" \notin DOMAIN UserDocs[userId]
    \/ \A k \in DOMAIN UserDocs[userId].vehicles : ~UserDocs[userId].vehicles[k].isPrimary

GenericCategories ==
    {"acceleration", "braking", "speed", "idling", "route", "general"}

\* the answer to a request without a primary vehicle is a success with
\* personalized = false and generic tips only
GenericAnswer(query, allowedUnknown) ==
    /\ response'.status = 200
    /\ response'.success
    /\ response'.message = "Tips retrieved successfully"
    /\ ~response'.data.personalized
    /\ IF ~hasCategory(query) \/ query.category = ""
       THEN /\ response'.data.tips.kind = "object"
            /\ DOMAIN response'.data.tips.value = GenericCategories
            /\ response'.data.tips.value = GenericTips
       ELSE IF query.category \in GenericCategories
       THEN /\ response'.data.tips.kind = "array"
            /\ response'.data.tips.value = GenericTips[query.category]
       ELSE \/ /\ response'.data.tips.kind = "array"
               /\ response'.data.tips.value = GenericTips.general
            \/ query.category \in allowedUnknown

\* C19: for a user without a primary vehicle GET /tips succeeds with
\* personalized = false and no vehicle_specific entry; a missing category
\* returns all generic categories, a known category its tips and an
\* unknown category the 'general' tips.
C19_TipsWithoutVehicle ==
    [][\A userId \in RouteUsers, query \in TipQueries :
          (NoPrimaryVehicle(userId) /\ GetTips(userId, query, TRUE))
             => GenericAnswer(query, {})]_vars

\* the same, except for the categories named like a member of
\* Object.prototype
TipsWithoutVehicleOwnNames ==
    [][\A userId \in RouteUsers, query \in TipQueries :
          (NoPrimaryVehicle(userId) /\ GetTips(userId, query, TRUE))
             => GenericAnswer(query, ObjectPrototypeKeys)]_vars

\* C20: for a user with at least one trip in the selected period
\* GET /insights answers 'Insights retrieved successfully' with the three
\* trends equal to calculateTrend on the ecoScore, fuelEfficiency and
\* distance series of the period's trips.
C20_InsightsTrends ==
    [][\A userId \in RouteUsers, query \in PeriodQueries :
          (GetInsights(userId, query, TRUE)
             /\ periodTrips(userId, periodOf(query)) # <<>>)
             => LET ts == periodTrips(userId, periodOf(query))
                IN  /\ response'.status = 200
                    /\ response'.success
                    /\ response'.message = "Insights retrieved successfully"
                    /\ response'.data.insights.trends.ecoScoreTrend
                          = calculateTrend(mapField(ts, "ecoScore")).trend
                    /\ response'.data.insights.trends.fuelEfficiencyTrend
                          = calculateTrend(mapField(ts, "fuelEfficiency")).trend
                    /\ response'.data.insights.trends.distanceTrend
                          = calculateTrend(mapField(ts, "distance")).trend]_vars

\* what the handler does: with a trip in the period it answers 500, and
\* without one it reports that no trips were found
InsightsFailWithTrips ==
    [][\A userId \in RouteUsers, query \in PeriodQueries :
          GetInsights(userId, query, TRUE)
             => IF periodTrips(userId, periodOf(query)) # <<>>
                THEN response'.status = 500
                     /\ response'.message = "Failed to get insights"
                ELSE response'.status = 200
                     /\ response'.message = "No trips found for the selected period"]_vars

----------------------------------------------------------------------------
(* Properties of potentialSavings, checked under SpecRec                   *)

\* equality of two finite numbers
NumEq(a, b) == Reduced(a) = Reduced(b)

\* the product of two finite numbers, in lowest terms
Times(a, b) == Reduced(JSMul(Reduced(a), Reduced(b)))

\* the recommendation of the given type in the result r of a call
RecOfType(r, ty) ==
    r.recommendations[CHOOSE i \in DOMAIN r.recommendations :
                          r.recommendations[i].type = ty]

HasType(r, ty) ==
    /\ r.status = "returned"
    /\ \E i \in DOMAIN r.recommendations : r.recommendations[i].type = ty

AverageFor(r, ty) ==
    CASE ty = "acceleration" -> r.averages.harshAccelerations
      [] ty = "speed" -> r.averages.maxSpeed
      [] ty = "idling" -> r.averages.idleTime

\* C16: for each of the three types potentialSavings is a non-constant
\* function of the window average: two calls that both emit the type for
\* different averages give different fuel and co2 savings; for
\* 'acceleration' fuel = avg x 0.1 and co2 = avg x 0.25.
C16_SavingsVaryWithAverage ==
    [][\A ty \in {"acceleration", "speed", "idling"} :
          /\ (HasType(recOut, ty) /\ HasType(recOut', ty)
                /\ ~NumEq(AverageFor(recOut, ty), AverageFor(recOut', ty)))
                => /\ ~NumEq(RecOfType(recOut, ty).potentialSavings.fuel,
                             RecOfType(recOut', ty).potentialSavings.fuel)
                   /\ ~NumEq(RecOfType(recOut, ty).potentialSavings.co2,
                             RecOfType(recOut', ty).potentialSavings.co2)
          /\ (ty = "acceleration" /\ HasType(recOut', ty))
                => /\ NumEq(RecOfType(recOut', ty).potentialSavings.fuel,
                            Times(AverageFor(recOut', ty), <<1, 10>>))
                   /\ NumEq(RecOfType(recOut', ty).potentialSavings.co2,
                            Times(AverageFor(recOut', ty), <<25, 100>>))]_vars

\* what does hold: the savings of 'acceleration' and of 'idling' vary with
\* the average
AccelerationAndIdlingVary ==
    [][\A ty \in {"acceleration", "idling"} :
          (HasType(recOut, ty) /\ HasType(recOut', ty)
             /\ ~NumEq(AverageFor(recOut, ty), AverageFor(recOut', ty)))
             => /\ ~NumEq(RecOfType(recOut, ty).potentialSavings.fuel,
                          RecOfType(recOut', ty).potentialSavings.fuel)
                /\ ~NumEq(RecOfType(recOut, ty).potentialSavings.co2,
                          RecOfType(recOut', ty).potentialSavings.co2)]_vars

\* two calls in a row have emitted the type for different averages
TwoAveragesSeen(ty) ==
    /\ HasType(recOut, ty)
    /\ HasType(recOut', ty)
    /\ ~NumEq(AverageFor(recOut, ty), AverageFor(recOut', ty))

NeverTwoAverages == [][\A ty \in {"acceleration", "speed", "idling"} : ~TwoAveragesSeen(ty)]_vars

\* the seconds by which the idle average is above the threshold
IdleExcess(r) == JSSub(Reduced(r.averages.idleTime), Num(180))

\* C17: the savings of an 'idling' recommendation are proportional to
\* (avgIdleTime - 180) / 60: for two calls that both emit it,
\* savings1 x excess2 = savings2 x excess1.
C17_IdlingSavingsScaleWithExcess ==
    [][(HasType(recOut, "idling") /\ HasType(recOut', "idling"))
          => /\ NumEq(Times(RecOfType(recOut, "idling").potentialSavings.fuel,
                            IdleExcess(recOut')),
                      Times(RecOfType(recOut', "idling").potentialSavings.fuel,
                            IdleExcess(recOut)))
             /\ NumEq(Times(RecOfType(recOut, "idling").potentialSavings.co2,
                            IdleExcess(recOut')),
                      Times(RecOfType(recOut', "idling").potentialSavings.co2,
                            IdleExcess(recOut)))]_vars

\* what the code computes: savings proportional to avgIdleTime / 60
IdlingSavingsScaleWithAverage ==
    [][HasType(recOut', "idling")
          => /\ NumEq(RecOfType(recOut', "idling").potentialSavings.fuel,
                      Times(JSDiv(Reduced(recOut'.averages.idleTime), Num(60)), <<1, 10>>))
             /\ NumEq(RecOfType(recOut', "idling").potentialSavings.co2,
                      Times(JSDiv(Reduced(recOut'.averages.idleTime), Num(60)), <<25, 100>>))]_vars

----------------------------------------------------------------------------
(* The cache wrapper                                                       *)

\* the call had no client, or its Redis command statement failed
CommandFailed(out) ==
    \/ out.client = Null
    \/ ~out.client.open
    \/ ~out.commandOk
    \/ out.op = "cacheData" /\ stringify(out.data).kind # "string"

\* what a successful call of the operation gives back
Succeeded(out) ==
    CASE out.op = "cacheData" -> JSTrue
      [] out.op = "deleteCachedData" -> JSTrue
      [] out.op = "getCachedData" ->
            IF out.before = Undefined THEN JSNull ELSE parse(out.before.text)

FailureValue(out) == IF out.op = "getCachedData" THEN JSNull ELSE JSFalse

\* C21: the application works without Redis: connectRedis never rejects and
\* cacheData, getCachedData and deleteCachedData never throw in any state of
\* the client; they give false, null and false when there is no client or
\* the Redis command fails, and true, the parsed value and true otherwise.
C21_WorksWithoutRedis ==
    /\ ~redisOut.threw
    /\ redisOut.op \in {"cacheData", "getCachedData", "deleteCachedData"} =>
            redisOut.result = IF CommandFailed(redisOut) THEN FailureValue(redisOut)
                              ELSE Succeeded(redisOut)

\* a read on a client whose connection attempt failed, after a value was cached
C21_Witness ==
    /\ redisOut.op = "getCachedData"
    /\ redisOut.client = [open |-> FALSE]
    /\ redisOut.before # Undefined
    /\ redisOut.result = JSNull

\* a read that gives back the parsed value of what was cached
C21_ParsedWitness ==
    /\ redisOut.op = "getCachedData"
    /\ ~CommandFailed(redisOut)
    /\ redisOut.result = JSObject([ecoScore |-> 85])

----------------------------------------------------------------------------
(* The efficiency score                                                    *)

PenaltyInputs == {"harshAccelerations", "harshBraking", "idleTime", "maxSpeed"}

\* the same trip with one more unit of one input, everything else as it was
Raised(tripData, input) ==
    IF input = "maxSpeed"
    THEN [tripData EXCEPT !.maxSpeed = @ + 15]
    ELSE IF input = "idleTime"
    THEN [tripData EXCEPT !.drivingBehavior.idleTime = @ + 60]
    ELSE [tripData EXCEPT !.drivingBehavior[input] = @ + 1]

EfficiencyLoaded ==
    /\ models.efficiency # Undefined
    /\ ~models.efficiency.disposed

\* C22: with the other inputs fixed, the efficiency score does not rise when
\* harshAccelerations, harshBraking, idleTime or maxSpeed rises.
C22_EfficiencyMonotone ==
    EfficiencyLoaded =>
        \A tripData \in CompleteTripDatas, input \in PenaltyInputs :
            analyzeEfficiency(Raised(tripData, input), models.efficiency).score
                <= analyzeEfficiency(tripData, models.efficiency).score

----------------------------------------------------------------------------
(* The Trip Aggregator                                                     *)

\* C23: aggregation fails with InvalidTripData, and no TripSummary is produced
\* or persisted, whenever the duration is <= 0 (endTime <= startTime) or the
\* sample sequence is empty.
C23_InvalidTripsRejected ==
    (/\ aggOut.op = "endTrip"
     /\ aggOut.endTime <= aggOut.startTime \/ aggOut.samples = <<>>)
    => /\ aggOut.result = InvalidTripData
       /\ summaries = aggOut.before

\* a trip that ends at the second it started, with samples, was rejected
C23_Witness ==
    /\ aggOut.op = "endTrip"
    /\ aggOut.endTime = aggOut.startTime
    /\ aggOut.samples # <<>>
    /\ aggOut.result = InvalidTripData
    /\ summaries[aggOut.tripId] = Undefined

----------------------------------------------------------------------------
(* The series of GET /insights                                             *)

TrendFields == {"ecoScore", "fuelEfficiency", "distance"}

\* the series the handler maps out of its trips: element k is taken from
\* trip k, so the series is ordered as the trips are
SeriesPassed(userId, query, field) ==
    LET ts == periodTrips(userId, periodOf(query))
    IN  [k \in DOMAIN ts |-> [at |-> ts[k].startTime, value |-> ts[k][field]]]

OldestFirst(series) ==
    \A i \in DOMAIN series, j \in DOMAIN series :
        i < j => series[i].at <= series[j].at

\* C24: every series GET /insights passes to calculateTrend is in
\* chronological order, oldest trip first.
C24_SeriesOldestFirst ==
    [][\A userId \in RouteUsers, query \in PeriodQueries :
            GetInsights(userId, query, TRUE)
            => \A field \in TrendFields :
                    OldestFirst(SeriesPassed(userId, query, field))]_vars

----------------------------------------------------------------------------
(* POST /analyze-trip: ownership and failures                              *)

Owned(tripId, userId) == \E t \in trips : t.id = tripId /\ t.userId = userId

RequestFails ==
    /\ request.op = "analyze-trip"
    /\ \/ ~isMongoId(request.tripId)
       \/ /\ Owned(request.tripId, request.userId)
          /\ \/ ~request.isInitialized /\ ~request.initOk
             \/ ~request.queryOk
             \/ ~request.saveOk

\* C28: POST /analyze-trip changes the stored trip only when the whole
\* request succeeds: when validation, initialization, the recent-trip query
\* or trip.save() fails, the response is an error (400, or 500 'Failed to
\* analyze trip') and the stored insights are those stored before.
C28_FailuresLeaveTripUnchanged ==
    RequestFails
    => /\ ~response.success
       /\ \/ response.status = 400
          \/ /\ response.status = 500
             /\ response.message = "Failed to analyze trip"
       /\ insights = request.insights

\* a request failed with 500 for a trip that has insights stored
C28_Witness ==
    /\ request.op = "analyze-trip"
    /\ ~request.saveOk
    /\ request.tripId = 1
    /\ response.status = 500
    /\ response.message = "Failed to analyze trip"
    /\ insights[1] # <<>>

----------------------------------------------------------------------------
(* The life cycle of the models                                            *)

ModelNames == {"efficiency", "behavior", "routeOptimization"}

Usable(model) == model # Undefined /\ ~model.disposed

\* C26: in every reachable state isInitialized = true implies that the
\* efficiency, behaviour and route models are all loaded and not disposed.
C26_InitializedImpliesModels ==
    isInitialized => \A name \in ModelNames : Usable(models[name])

\* the call is inside initialize()
Initializing(c) == calls[c].pc \in {"loadBehavior", "loadRoute", "loaded"}

\* the step takes call c into initialize()
StartsInitialize(c) == calls[c].pc = "idle" /\ calls'[c].pc = "loadBehavior"

\* the step of call c assigns this.models.<name>
Creates(c, name) ==
    CASE name = "efficiency" -> StartsInitialize(c)
      [] name = "behavior" ->
            calls[c].pc = "loadBehavior" /\ calls'[c].pc = "loadRoute"
      [] name = "routeOptimization" ->
            calls[c].pc = "loadRoute" /\ calls'[c].pc = "loaded"

\* C27: under any interleaving of analyzeTrip calls issued before
\* initialization completes, every model is created once: no initialize()
\* starts while another is in progress or after one succeeded, and no model
\* that is there is replaced.
C27_ModelsCreatedOnce ==
    [][\A c \in DOMAIN calls :
          /\ StartsInitialize(c) =>
                /\ ~isInitialized
                /\ \A d \in DOMAIN calls \ {c} : ~Initializing(d)
          /\ \A name \in ModelNames :
                Creates(c, name) => models[name] = Undefined]_vars

----------------------------------------------------------------------------
(* GET /recommendations                                                    *)

\* C30: the recommendations of GET /recommendations are computed from the
\* trips the handler loaded for its summary: whenever summary.totalTrips > 0
\* they are exactly those the averages of harshAccelerations, maxSpeed and
\* idleTime over the loaded trips determine.
C30_RecommendationsFromLoadedTrips ==
    (/\ request.op = "recommendations"
     /\ response.status = 200
     /\ response.data.summary.totalTrips > 0)
    => response.data.recommendations =
          limit(recommendationsFor(loadedTrips(request.userId)), limitOf(request.query))

----------------------------------------------------------------------------
(* The AuthProvider after the page loads                                   *)

\* checkAuth has not finished
CheckPending == authTasks.checkAuth \in {"start", "requesting"}

\* the step finishes checkAuth
CheckFinishes == CheckPending /\ authTasks'.checkAuth = "done"

\* what the state is right after checkAuth finished, by the way it went
CheckOutcome ==
    CASE authTasks'.outcome = "noToken" ->
            /\ authState.token = Null
            /\ authState' = [authState EXCEPT !.isLoading = FALSE]
            /\ ~authState'.isAuthenticated
      [] authTasks'.outcome = "ok" ->
            /\ authState'.isAuthenticated
            /\ ~authState'.isLoading
            /\ authState'.token = authTasks.checkToken
            /\ authState'.token # Null
      [] authTasks'.outcome = "failed" ->
            /\ authState'.user = Null
            /\ authState'.token = Null
            /\ ~authState'.isAuthenticated
            /\ ~authState'.isLoading
            /\ localStorage' = Null \/ authTasks'.tokenEffect

\* the token was dropped and the effect that clears localStorage is due
RemovalDue == authTasks.tokenEffect /\ authState.token = Null

\* C29: after the AuthProvider mounts, isLoading eventually becomes false in
\* every run in which GET /auth/me completes: without a stored token by
\* SET_LOADING(false), unauthenticated; with a stored token by LOGIN_SUCCESS
\* (authenticated, token kept) when the request succeeds and by LOGOUT (user
\* and token null, unauthenticated, token removed from localStorage) when it
\* fails.
C29_LoadingEnds ==
    /\ CheckPending ~> ~authState.isLoading
    /\ [][CheckFinishes => CheckOutcome]_vars
    /\ RemovalDue ~> localStorage = Null

\* GET /auth/me failed for a stored token: logged out, loading over, and the
\* token gone from localStorage
C29_Witness ==
    /\ authTasks.outcome = "failed"
    /\ authTasks.checkToken = Jwt("t1")
    /\ ~authTasks.tokenEffect
    /\ ~authState.isLoading
    /\ authState.token = Null
    /\ localStorage = Null

====
